---- MODULE Spec2Model ----
(***************************************************************************)
(* Model of node-red-contrib-event-calc: the event-cache config node       *)
(* (topic cache, subscription registry, synchronous dispatch) and the      *)
(* event-calc node (calculator) that subscribes to it.                     *)
(*                                                                         *)
(* Strings the code inspects character by character (topics, node names)   *)
(* are sequences of one-character strings.                                  *)
(*                                                                         *)
(* Spec: one event-cache node on a fresh global context.                    *)
(* SpecShared: two event-cache nodes, whose names may sanitize to the same  *)
(* context key and so share one cache object.                               *)
(* SpecTtl: one event-cache node with a TTL, its sweep timer and the clock.  *)
(* SpecCalc: one event-cache node and the calculators deployed on it, none  *)
(* of which feeds, through its output topic, a calculator that feeds it.    *)
(* SpecLoop: one event-cache node and two calculators, each of which has    *)
(* the other one's output topic as its input.                               *)
(* SpecClose: one event-cache node, calculators that are closed while the   *)
(* cache is in use, and other subscribers.                                 *)
(* SpecEdge: one event-cache node and one calculator configured with a     *)
(* name or an expression that the code has no provision for.               *)
(* SpecTopic: one event-cache node, one event-topic node and other          *)
(* subscribers.                                                            *)
(* SpecIn: one event-cache node, one event-in node and subscribers.         *)
(* SpecRedeploy: one event-cache node that is closed and constructed again. *)
(* SpecFan: one event-cache node that evicts, expires and is cleared, and   *)
(* calculators of which one feeds another that shares an input with it.     *)
(***************************************************************************)
EXTENDS Integers, Sequences, FiniteSets, TLC

VARIABLES
    cfg,      \* cfg[n]: the config object each deployed event-cache node was built from
    store,    \* global context: store[contextKey] is the cache object of that key
    subs,     \* subs[n]: instance.subscriptions, pattern -> <<[id, cb], ...>> (Map order)
    counter,  \* counter[n]: instance.subscriptionCounter
    now,      \* Date.now()
    dead,     \* <<n, id>> of every subscription id that unsubscribe has removed
    ops,      \* number of API calls made so far
    last,     \* what the last API call did: its arguments, deliveries, outcome
    issued,   \* <<n, id>> of every subscription id that subscribe has returned
    calcCfg,  \* calcCfg[c]: the config object each deployed event-calc node was built from
    calc,     \* calc[c]: node.expression, latestValues and subscriptionIds of calculator c,
              \* and whether the runtime has closed the node
    setTopics, \* the topics setValue has been called with so far
    timer,    \* timer[n]: ttlInterval of node n, whether it is set and when it fires next
    users,    \* users[n]: instance.users of the shared instance of node n
    listeners, \* listeners[n]: the 'update' listeners on instance.emitter
    topicCfg, \* topicCfg[t]: the config object each deployed event-topic node was built from
    topicNode, \* topicNode[t]: node.topic and subscriptionId of event-topic node t, and
              \* whether the runtime has closed the node
    inCfg     \* inCfg[i]: the config object each deployed event-in node was built from

vars == <<cfg, store, subs, counter, now, dead, ops, last, issued, calcCfg, calc, setTopics,
          timer, users, listeners, topicCfg, topicNode, inCfg>>

----------------------------------------------------------------------------
\* Bounds of the model.

MaxOps == 3
MaxTime == 1
MaxCfgEntries == 2
MaxSubs == 2
\* Where entries expire, the clock takes the values a + b * 60000 with
\* a <= MaxTtlTime and b <= MaxLongTicks.
MaxTtlTime == 2
MaxLongTicks == 2
\* The number of setValue calls that can be in progress, one inside the
\* other, before the call stack of the engine is exhausted.
MaxDepth == 4

----------------------------------------------------------------------------
\* Inputs.

NodeIds == {"n1", "n2"}

TopicSensor1 == <<"s", "e", "n", "s", "o", "r", "1">>
TopicSensorsA == <<"s", "e", "n", "s", "o", "r", "s", "/", "a">>
Topic7 == <<"7">>
Topics == {TopicSensor1, TopicSensorsA, Topic7}

PatternSensorQ == <<"s", "e", "n", "s", "o", "r", "?">>
PatternSensorsStar == <<"s", "e", "n", "s", "o", "r", "s", "/", "*">>
Patterns == Topics \cup {PatternSensorQ, PatternSensorsStar}
QueryPatterns == {TopicSensor1, PatternSensorsStar}

Undefined == "undefined"
EmptyObject == "{}"
\* What a lookup of a missing property yields (a record, as an entry is one).
Absent == [absent |-> TRUE]

\* setValue's (value, metadata) arguments: metadata left out, and given.
Payloads == {<<1, Undefined>>, <<2, "m1">>}

\* What a subscriber callback does when invoked: return, or raise.
CbKinds == {"ok", "throw"}

\* The topics of the calculators' deployments: 'x', 'y' and the default
\* output topic; the trigger name of a forced recalculation.
TopicX == <<"x">>
TopicY == <<"y">>
DefaultOutputTopic == <<"c", "a", "l", "c", "/", "r", "e", "s", "u", "l", "t">>
RecalcTrigger == <<"_", "r", "e", "c", "a", "l", "c">>
CalcTopics == {TopicX, TopicY, DefaultOutputTopic}

\* JavaScript values where calculators are deployed: numbers, NaN, Infinity,
\* null and undefined (numbers are not negative in this model).
Num(k) == [num |-> k]
NaN == [nan |-> TRUE]
Infinity == [infinity |-> TRUE]
Null == [null |-> TRUE]
UndefinedValue == [undefined |-> TRUE]
\* An object without a prototype, which has no toString.
NullProtoObject == [nullProto |-> TRUE]

\* The values written by the producers next to calculators.
CalcValues == {Num(1), Num(2), Null}

\* config.expression / msg.expression texts.
ExprAPlusB == "a+b"
ExprA == "a"
ExprADivZero == "a/0"
ExprZeroDivZero == "0/0"
ExprSyntaxError == "a+"
ExprEmpty == ""
ExprNullProto == "Object.create(null)"

\* Messages sent to a calculator's input: a recalc request (by payload, by
\* topic), a new expression, and a message that is neither.
CalcMsgs ==
    { [payload |-> "recalc", topic |-> Undefined, expression |-> Undefined],
      [payload |-> "other", topic |-> "recalc", expression |-> Undefined],
      [payload |-> "other", topic |-> Undefined, expression |-> ExprZeroDivZero],
      [payload |-> "other", topic |-> Undefined, expression |-> Undefined] }

\* config.name values: not set, "c-1", "c_1".
NameUnset == <<>>
NameC1Dash == <<"c", "-", "1">>
NameC1Under == <<"c", "_", "1">>

----------------------------------------------------------------------------
\* EventCacheNode construction: name, maxEntries, contextKey.

DefaultName == <<"E", "v", "e", "n", "t", " ", "C", "a", "c", "h", "e">>
DefaultMaxEntries == 10000

WordChars ==
    { "a","b","c","d","e","f","g","h","i","j","k","l","m","n","o","p","q","r",
      "s","t","u","v","w","x","y","z","A","B","C","D","E","F","G","H","I","J",
      "K","L","M","N","O","P","Q","R","S","T","U","V","W","X","Y","Z",
      "0","1","2","3","4","5","6","7","8","9","_" }

\* node.name = config.name || 'Event Cache'
NodeName(n) == IF cfg[n].name = <<>> THEN DefaultName ELSE cfg[n].name

\* node.maxEntries = parseInt(config.maxEntries) || 10000
\* (config.maxEntries 0 stands for every input parseInt turns into 0 or NaN)
NodeMaxEntries(n) ==
    IF cfg[n].maxEntries = 0 THEN DefaultMaxEntries ELSE cfg[n].maxEntries

\* node.ttl = parseInt(config.ttl) || 0 (0 = no expiry)
NodeTtl(n) == cfg[n].ttl

\* The longest time between two sweeps, in milliseconds.
MaxSweepInterval == 60000

\* Math.min(node.ttl, 60000)
SweepInterval(n) == IF NodeTtl(n) < MaxSweepInterval THEN NodeTtl(n) ELSE MaxSweepInterval

\* Mutant of TimerSet: the interval timer is set whatever the TTL.
TimerSetAlways(n) == TRUE

\* if (node.ttl > 0) { ttlInterval = setInterval(...) }
TimerSet(n) == NodeTtl(n) > 0

\* ttlInterval after construction at time t: the timer fires first one
\* interval later.
NewTimer(n, t) == [armed |-> TimerSet(n), due |-> t + SweepInterval(n)]

\* name.replace(/[^a-zA-Z0-9_]/g, '_')
Sanitize(s) == [i \in 1..Len(s) |-> IF s[i] \in WordChars THEN s[i] ELSE "_"]

\* `eventCache_${...}`
ContextKey(n) == <<"eventCache_">> \o Sanitize(NodeName(n))

Deployed == DOMAIN cfg

----------------------------------------------------------------------------
\* The cache object: a JavaScript object used as a map. It is modelled as the
\* sequence of its properties in Object.keys order.

Digits == {"0","1","2","3","4","5","6","7","8","9"}

DigitValue(c) ==
    CASE c = "0" -> 0 [] c = "1" -> 1 [] c = "2" -> 2 [] c = "3" -> 3
      [] c = "4" -> 4 [] c = "5" -> 5 [] c = "6" -> 6 [] c = "7" -> 7
      [] c = "8" -> 8 [] c = "9" -> 9

\* An integer-like property name ("0", "7", "42"): Object.keys lists these
\* first, in ascending numeric order, before the other names.
IsArrayIndex(t) ==
    /\ Len(t) > 0
    /\ \A i \in 1..Len(t) : t[i] \in Digits
    /\ (Len(t) > 1 => t[1] # "0")

RECURSIVE ArrayIndexValue(_)
ArrayIndexValue(t) ==
    IF Len(t) = 0 THEN 0
    ELSE 10 * ArrayIndexValue(SubSeq(t, 1, Len(t) - 1)) + DigitValue(t[Len(t)])

KeysOf(cache) == {cache[i].topic : i \in 1..Len(cache)}

HasKey(cache, topic) == topic \in KeysOf(cache)

IndexOfKey(cache, topic) == CHOOSE i \in 1..Len(cache) : cache[i].topic = topic

\* cache[topic]
Lookup(cache, topic) ==
    IF HasKey(cache, topic) THEN cache[IndexOfKey(cache, topic)].entry ELSE Absent

\* cache[topic] = entry
ObjectSet(cache, topic, entry) ==
    LET prop == [topic |-> topic, entry |-> entry] IN
    IF HasKey(cache, topic)
    THEN [cache EXCEPT ![IndexOfKey(cache, topic)] = prop]
    ELSE IF IsArrayIndex(topic)
    THEN LET p == Cardinality({i \in 1..Len(cache) :
                      /\ IsArrayIndex(cache[i].topic)
                      /\ ArrayIndexValue(cache[i].topic) < ArrayIndexValue(topic)})
         IN SubSeq(cache, 1, p) \o <<prop>> \o SubSeq(cache, p + 1, Len(cache))
    ELSE Append(cache, prop)

\* delete cache[keys[i]]
ObjectDeleteAt(cache, i) == SubSeq(cache, 1, i - 1) \o SubSeq(cache, i + 1, Len(cache))

----------------------------------------------------------------------------
\* Reads: node.getValue, node.getTopics, node.size.

\* globalContext.get(contextKey) || {}
CacheOf(st, n) == st[ContextKey(n)]

GetValue(n, topic) == Lookup(CacheOf(store, n), topic)

GetTopics(n) == [i \in 1..Len(CacheOf(store, n)) |-> CacheOf(store, n)[i].topic]

Size(n) == Len(CacheOf(store, n))

----------------------------------------------------------------------------
\* An API call runs to completion. The operators below thread a record
\*   w = [store, subs, counter, deliv, evicted, logged, threw, ret, ...]
\* through the statements of the call: the state it reads and writes, the
\* callback invocations made so far (deliv), the topics evicted so far, the
\* errors logged so far, whether an exception is propagating to the caller
\* (threw), and the value returned. Where calculators are deployed, w also
\* holds their state (calc), the clock, the messages they have sent (sent),
\* their evaluations (evals), every cache write of the call (writes), the
\* evaluation in progress (running, 0 when there is none), the number of
\* setValue calls in progress (depth) and whether the call stack has been
\* exhausted.

\* Mutant of NewEntry: the metadata argument is dropped.
NewEntryNoMetadata(value, metadata, t) ==
    [value |-> value, ts |-> t, metadata |-> EmptyObject]

NewEntry(value, metadata, t) ==
    [value |-> value, ts |-> t,
     metadata |-> IF metadata = Undefined THEN EmptyObject ELSE metadata]

\* The loop that finds the oldest entry: the first key, in Object.keys order,
\* whose ts is strictly below that of every key before it.
RECURSIVE OldestFrom(_, _, _)
OldestFrom(cache, i, oldest) ==
    IF i > Len(cache) THEN oldest
    ELSE OldestFrom(cache, i + 1,
                    IF cache[i].entry.ts < cache[oldest].entry.ts THEN i ELSE oldest)

\* Mutant of OldestKey: the loop never replaces keys[0].
OldestKeyFirst(cache) == 1

OldestKey(cache) == OldestFrom(cache, 1, 1)

\* if (keys.length > node.maxEntries) { ... delete cache[oldestKey]; }
EnforceMaxEntries(w, n) ==
    LET cache == CacheOf(w.store, n) IN
    IF Len(cache) > NodeMaxEntries(n)
    THEN [w EXCEPT !.store[ContextKey(n)] = ObjectDeleteAt(cache, OldestKey(cache)),
                   !.evicted = Append(@, cache[OldestKey(cache)].topic)]
    ELSE w

\* cache[topic] = entry; eviction; globalContext.set(contextKey, cache).
\* The write is noted in writes, with the evaluation that made it and the
\* topics its eviction removed.
StoreEntry(w, n, topic, entry) ==
    LET kept == EnforceMaxEntries(
                    [w EXCEPT !.store[ContextKey(n)] = ObjectSet(@, topic, entry)], n)
    IN [kept EXCEPT !.written = @ \cup {topic},
                    !.writes = Append(@, [by |-> w.running, node |-> n, topic |-> topic,
                                          entry |-> entry,
                                          evicted |-> SubSeq(kept.evicted,
                                                             Len(w.evicted) + 1,
                                                             Len(kept.evicted))])]

----------------------------------------------------------------------------
\* EventCalcNode: configuration, evaluation context, expression evaluation.

CalcIds == {"c1", "c2"}

\* RED.nodes.getNode(config.cache): a deployed event-cache node, or null
CalcCache(c) == calcCfg[c].cache

\* node.inputMappings = config.inputMappings || []
InputMappings(c) == calcCfg[c].inputMappings

\* node.triggerOn = config.triggerOn || 'any'
TriggerOn(c) == IF calcCfg[c].triggerOn = "" THEN "any" ELSE calcCfg[c].triggerOn

\* node.outputTopic = config.outputTopic || 'calc/result'
OutputTopic(c) ==
    IF calcCfg[c].outputTopic = <<>> THEN DefaultOutputTopic ELSE calcCfg[c].outputTopic

\* The constructor runs to the end (subscriptions, input handler) when the
\* cache is configured, there are inputs and the expression is not empty.
CalcReady(c) ==
    /\ CalcCache(c) \in DOMAIN cfg
    /\ Len(InputMappings(c)) # 0
    /\ calcCfg[c].expression # ExprEmpty

\* The callback a calculator subscribes for its i-th input: a closure over
\* the calculator and the input mapping, named by a string.
Closures == {"c1.1", "c1.2", "c2.1", "c2.2"}

ClosureCalc(cb) == IF cb \in {"c1.1", "c1.2"} THEN "c1" ELSE "c2"

ClosureInput(cb) == IF cb \in {"c1.1", "c2.1"} THEN 1 ELSE 2

Closure(c, i) == CHOOSE cb \in Closures : ClosureCalc(cb) = c /\ ClosureInput(cb) = i

\* latestValues, a Map from input name to {topic, value, ts}: a function on
\* the names set so far.
MapSet(m, k, v) == [x \in DOMAIN m \cup {k} |-> IF x = k THEN v ELSE m[x]]

\* Mutant of HasValue: a null value counts as a value.
HasValueNullIsValue(lv, name) == name \in DOMAIN lv /\ lv[name].value # UndefinedValue

\* data && data.value !== undefined && data.value !== null
HasValue(lv, name) ==
    /\ name \in DOMAIN lv
    /\ lv[name].value # UndefinedValue
    /\ lv[name].value # Null

InputNames(c) == [i \in 1..Len(InputMappings(c)) |-> InputMappings(c)[i].name]

\* context[input.name]: the latest value, or undefined
Context(c, lv) ==
    [name \in {InputNames(c)[i] : i \in 1..Len(InputMappings(c))} |->
        IF HasValue(lv, name) THEN lv[name].value ELSE UndefinedValue]

\* missingInputs, in the order of the input mappings
MissingInputs(c, lv) == SelectSeq(InputNames(c), LAMBDA name : ~HasValue(lv, name))

\* inputDetails[input.name] = {topic, value, ts}
InputDetails(c, lv) ==
    [name \in {InputNames(c)[i] : i \in 1..Len(InputMappings(c))} \cap
               {nm \in DOMAIN lv : HasValue(lv, nm)} |-> lv[name]]

\* The outcome of new Function(...)(...): a value returned or an error raised.
Returned(value) == [raised |-> FALSE, value |-> value]
Raised(message) == [raised |-> TRUE, message |-> message]

\* The number an operand of an arithmetic operator is converted to.
ToNumber(v) == IF v = UndefinedValue THEN NaN ELSE IF v = Null THEN Num(0) ELSE v

\* x + y, on numbers
Add(x, y) ==
    LET a == ToNumber(x)
        b == ToNumber(y)
    IN IF a = NaN \/ b = NaN THEN NaN
       ELSE IF a = Infinity \/ b = Infinity THEN Infinity
       ELSE Num(a.num + b.num)

\* x / 0
DivideByZero(x) ==
    LET a == ToNumber(x) IN
    IF a = NaN THEN NaN
    ELSE IF a = Infinity THEN Infinity
    ELSE IF a.num = 0 THEN NaN
    ELSE Infinity

\* new Function(...paramNames, `return ${expression};`)(...paramValues), the
\* parameters being the helpers and the names of the context
Evaluate(expression, context) ==
    LET Var(name, then) ==
            IF name \in DOMAIN context THEN then
            ELSE Raised(<<name, " is not defined">>)
    IN CASE expression = ExprAPlusB ->
                Var("a", Var("b", Returned(Add(context["a"], context["b"]))))
         [] expression = ExprA -> Var("a", Returned(context["a"]))
         [] expression = ExprADivZero -> Var("a", Returned(DivideByZero(context["a"])))
         [] expression = ExprZeroDivZero -> Returned(NaN)
         [] expression = ExprSyntaxError -> Raised(<<"Unexpected token '}'">>)
         [] expression = ExprEmpty -> Returned(UndefinedValue)
         [] expression = ExprNullProto -> Returned(NullProtoObject)

\* String(result) raises a TypeError for an object that cannot be converted
\* to a primitive value.
StringRaises(result) == result = NullProtoObject

----------------------------------------------------------------------------
\* tryCalculate and the subscription callback of a calculator.

RECURSIVE SetValueCall(_, _, _, _, _, _)

\* node.send([msg, null]) is port 1, node.send([null, errorMsg]) is port 2
Send(w, c, port, msg) ==
    [w EXCEPT !.sent = Append(@, [calc |-> c, eval |-> w.running, port |-> port,
                                  msg |-> msg])]

\* The metadata of a result: {source: 'event-calc', expression, inputs}, of
\* which the model keeps the source.
CalcMetadata == "event-calc"

\* Mutant of WriteResult: the result is not written to the cache.
WriteResultSkipped(w, c, result) == w

\* node.cacheConfig.setValue(node.outputTopic, result, {...}): the call
\* raises a RangeError when the call stack has no room for it.
WriteResult(w, c, result) ==
    IF w.depth >= MaxDepth
    THEN [w EXCEPT !.threw = TRUE, !.exhausted = TRUE]
    ELSE LET r == SetValueCall([w EXCEPT !.depth = @ + 1], CalcCache(c), OutputTopic(c),
                               result, CalcMetadata, w.clock)
         IN [r EXCEPT !.depth = w.depth]

\* Mutant of CatchEvalError: the error is swallowed.
CatchEvalErrorSilent(w, c, message, context, inputDetails, triggerTopic) == w

\* Mutant of CatchEvalError: the calculator forgets its input values when an
\* evaluation fails.
CatchEvalErrorReset(w, c, message, context, inputDetails, triggerTopic) ==
    [Send(w, c, 2, [topic |-> OutputTopic(c),
                    payload |-> [error |-> message,
                                 expression |-> w.calc[c].expression,
                                 context |-> context],
                    inputs |-> inputDetails,
                    trigger |-> triggerTopic,
                    timestamp |-> w.clock])
        EXCEPT !.calc[c].latestValues = <<>>]

\* catch (err) { ... node.send([null, errorMsg]); ... }
CatchEvalError(w, c, message, context, inputDetails, triggerTopic) ==
    Send(w, c, 2, [topic |-> OutputTopic(c),
                   payload |-> [error |-> message,
                                expression |-> w.calc[c].expression,
                                context |-> context],
                   inputs |-> inputDetails,
                   trigger |-> triggerTopic,
                   timestamp |-> w.clock])

\* if (typeof result === 'number' && isNaN(result)) { ... return; }
SendNaN(w, c, missingInputs, inputDetails, triggerTopic) ==
    Send(w, c, 2, [topic |-> OutputTopic(c),
                   payload |-> [error |-> <<"Expression resulted in NaN">>,
                                missingInputs |-> missingInputs,
                                expression |-> w.calc[c].expression],
                   inputs |-> inputDetails,
                   trigger |-> triggerTopic,
                   timestamp |-> w.clock])

\* node.send([msg, null])
SendResult(w, c, result, inputDetails, triggerTopic) ==
    Send(w, c, 1, [topic |-> OutputTopic(c),
                   payload |-> result,
                   topics |-> [name \in DOMAIN inputDetails \cup {"_output"} |->
                                 IF name = "_output" THEN OutputTopic(c)
                                 ELSE inputDetails[name].topic],
                   inputs |-> inputDetails,
                   timestamps |-> [name \in DOMAIN inputDetails |-> inputDetails[name].ts],
                   expression |-> w.calc[c].expression,
                   trigger |-> triggerTopic,
                   timestamp |-> w.clock])

\* Mutant of IsNaNResult: no result is taken for NaN.
IsNaNResultNever(result) == FALSE

\* typeof result === 'number' && isNaN(result)
IsNaNResult(result) == result = NaN

\* The part of tryCalculate after the three gates: context, evaluation,
\* messages, cache write, the result's text for the status. The evaluation is noted in evals with what the
\* calculator knew when it started, the topics written until then (updated),
\* the numbers of callback invocations and of cache writes the call had made
\* until then (delivered, wrote) and the evaluation it was started from
\* (parent, 0 when there is none);
\* got is what the cache holds for the output topic when the write returns.
Calculate(w, c, triggerTopic) ==
    LET lv == w.calc[c].latestValues
        context == Context(c, lv)
        inputDetails == InputDetails(c, lv)
        missingInputs == MissingInputs(c, lv)
        r == Evaluate(w.calc[c].expression, context)
        id == Len(w.evals) + 1
        started == [w EXCEPT !.running = id,
                             !.evals = Append(@, [id |-> id, calc |-> c,
                                                  parent |-> w.running,
                                                  trigger |-> triggerTopic,
                                                  expression |-> w.calc[c].expression,
                                                  latest |-> lv,
                                                  updated |-> w.written,
                                                  delivered |-> Len(w.deliv),
                                                  wrote |-> Len(w.writes),
                                                  got |-> Absent])]
        Done(x) == [x EXCEPT !.running = w.running]
    IN IF r.raised
       THEN Done(CatchEvalError(started, c, r.message, context, inputDetails, triggerTopic))
       ELSE IF IsNaNResult(r.value)
       THEN Done(SendNaN(started, c, missingInputs, inputDetails, triggerTopic))
       ELSE LET wrote == WriteResult(
                            SendResult(started, c, r.value, inputDetails, triggerTopic),
                            c, r.value)
            IN IF wrote.threw
               THEN Done(CatchEvalError([wrote EXCEPT !.threw = FALSE], c,
                                        <<"Maximum call stack size exceeded">>,
                                        context, inputDetails, triggerTopic))
               ELSE LET stored == [wrote EXCEPT !.evals[id].got =
                                       Lookup(CacheOf(wrote.store, CalcCache(c)),
                                              OutputTopic(c))]
                    IN IF StringRaises(r.value)
                       THEN Done(CatchEvalError(
                                     stored, c,
                                     <<"Cannot convert object to primitive value">>,
                                     context, inputDetails, triggerTopic))
                       ELSE Done(stored)

\* Mutant of IsOwnOutput: no trigger is taken for the calculator's own output.
IsOwnOutputNever(c, triggerTopic) == FALSE

\* if (triggerTopic === node.outputTopic) return;
IsOwnOutput(c, triggerTopic) == triggerTopic = OutputTopic(c)

\* Mutant of AllInputsKnown: the gate lets every trigger through.
AllInputsKnownAlways(c, lv) == TRUE

\* for (const input of node.inputMappings) if (!latestValues.has(input.name)) return;
AllInputsKnown(c, lv) == \A i \in 1..Len(InputMappings(c)) : InputNames(c)[i] \in DOMAIN lv

\* tryCalculate(triggerTopic, latestValues)
TryCalculate(w, c, triggerTopic) ==
    IF IsOwnOutput(c, triggerTopic) THEN w
    ELSE IF TriggerOn(c) = "all" /\ ~AllInputsKnown(c, w.calc[c].latestValues) THEN w
    ELSE IF DOMAIN w.calc[c].latestValues = {} THEN w
    ELSE Calculate(w, c, triggerTopic)

\* Mutant of InputUpdate: a write to the calculator's own output topic does
\* not update latestValues.
InputUpdateSkipsOwnOutput(w, c, i, topic, entry) ==
    IF IsOwnOutput(c, topic) THEN w
    ELSE TryCalculate([w EXCEPT !.calc[c].latestValues =
                           MapSet(@, InputNames(c)[i],
                                  [topic |-> topic, value |-> entry.value,
                                   ts |-> entry.ts])],
                      c, topic)

\* (topic, entry) => { latestValues.set(input.name, {...}); tryCalculate(topic, latestValues); }
InputUpdate(w, c, i, topic, entry) ==
    TryCalculate([w EXCEPT !.calc[c].latestValues =
                      MapSet(@, InputNames(c)[i],
                             [topic |-> topic, value |-> entry.value, ts |-> entry.ts])],
                 c, topic)

----------------------------------------------------------------------------
\* EventTopicNode: configuration, output message, subscription callback.

TopicIds == {"t1"}

\* RED.nodes.getNode(config.cache): a deployed event-cache node, or null
TopicCache(t) == topicCfg[t].cache

\* node.outputFormat = config.outputFormat || 'value'
OutputFormat(t) == IF topicCfg[t].outputFormat = "" THEN "value" ELSE topicCfg[t].outputFormat

\* node.topic = config.topic || config.pattern || ''
ConfiguredTopic(t) ==
    IF topicCfg[t].topic # <<>> THEN topicCfg[t].topic ELSE topicCfg[t].pattern

\* The constructor runs to the end (subscription, input and close handlers)
\* when the cache is configured and the topic is not empty.
TopicReady(t) == TopicCache(t) \in DOMAIN cfg /\ ConfiguredTopic(t) # <<>>

\* buildOutputMessage(topic, entry)
BuildOutputMessage(t, topic, entry) ==
    IF OutputFormat(t) = "value"
    THEN [topic |-> topic, payload |-> entry.value, timestamp |-> entry.ts]
    ELSE IF OutputFormat(t) = "full"
    THEN [topic |-> topic,
          payload |-> [value |-> entry.value, ts |-> entry.ts, metadata |-> entry.metadata]]
    ELSE [topic |-> topic, payload |-> entry.value]

\* node.send(msg) of event-topic node t; the message is noted in emitted with
\* what made the node send it.
TopicSend(w, t, msg, cause) ==
    [w EXCEPT !.emitted = Append(@, [node |-> t, msg |-> msg, cause |-> cause])]

\* (topic, entry) => { node.send(buildOutputMessage(topic, entry)); ... }
TopicCallback(w, t, topic, entry) ==
    TopicSend(w, t, BuildOutputMessage(t, topic, entry), "update")

----------------------------------------------------------------------------
\* Dispatch: updateHandler and the callbacks it invokes.

\* What running the callback's body does: the invocation is recorded with what
\* getValue(topic) returns at that moment; a "throw" callback raises, the
\* callback of a calculator runs the calculator's input update, and the
\* callback of an event-topic node sends a message.
CallbackBody(w, n, sub, topic, entry) ==
    LET invoked == [w EXCEPT !.deliv = Append(@, [node |-> n, id |-> sub.id,
                                                  topic |-> topic, entry |-> entry,
                                                  seen |-> Lookup(CacheOf(w.store, n),
                                                                  topic)]),
                             !.threw = (sub.cb = "throw")]
    IN IF sub.cb \in Closures
       THEN InputUpdate(invoked, ClosureCalc(sub.cb), ClosureInput(sub.cb), topic, entry)
       ELSE IF sub.cb \in TopicIds
       THEN TopicCallback(invoked, sub.cb, topic, entry)
       ELSE invoked

\* Mutant of InvokeCallback: no try/catch around the callback.
InvokeCallbackNoCatch(w, n, sub, topic, entry) == CallbackBody(w, n, sub, topic, entry)

\* try { callback(topic, entry); } catch (err) { RED.log.error(...); }
InvokeCallback(w, n, sub, topic, entry) ==
    LET r == CallbackBody(w, n, sub, topic, entry) IN
    IF r.threw THEN [r EXCEPT !.threw = FALSE, !.logged = @ + 1] ELSE r

\* for (const [subId, callback] of subs) { ... }: an exception that leaves the
\* loop body ends the loop.
RECURSIVE RunCallbacks(_, _, _, _, _, _)
RunCallbacks(w, n, bucket, i, topic, entry) ==
    IF i > Len(bucket) \/ w.threw THEN w
    ELSE RunCallbacks(InvokeCallback(w, n, bucket[i], topic, entry),
                      n, bucket, i + 1, topic, entry)

\* Mutant of UpdateHandler: every bucket is dispatched to, whatever its topic.
RECURSIVE RunBuckets(_, _, _, _, _)
RunBuckets(w, n, patterns, topic, entry) ==
    IF patterns = {} THEN w
    ELSE LET p == CHOOSE q \in patterns : TRUE IN
         RunBuckets(RunCallbacks(w, n, w.subs[n][p], 1, topic, entry),
                    n, patterns \ {p}, topic, entry)

UpdateHandlerAllBuckets(w, n, topic, entry) ==
    RunBuckets(w, n, DOMAIN w.subs[n], topic, entry)

\* updateHandler: instance.subscriptions.get(topic), then every callback of it
UpdateHandler(w, n, topic, entry) ==
    IF topic \in DOMAIN w.subs[n]
    THEN RunCallbacks(w, n, w.subs[n][topic], 1, topic, entry)
    ELSE w

\* instance.emitter.emit('update', topic, entry): each listener registered
\* on the emitter is called, the k last ones here.
RECURSIVE EmitTo(_, _, _, _, _)
EmitTo(w, n, k, topic, entry) ==
    IF k = 0 THEN w
    ELSE EmitTo(UpdateHandler(w, n, topic, entry), n, k - 1, topic, entry)

Emit(w, n, topic, entry) == EmitTo(w, n, w.listeners[n], topic, entry)

\* Mutant of SetValueCall: the update is emitted before the entry is stored.
SetValueCallEmitFirst(w, n, topic, value, metadata, t) ==
    LET entry == NewEntry(value, metadata, t) IN
    StoreEntry(UpdateHandler(w, n, topic, entry), n, topic, entry)

\* node.setValue(topic, value, metadata), Date.now() being t
SetValueCall(w, n, topic, value, metadata, t) ==
    LET entry == NewEntry(value, metadata, t) IN
    Emit(StoreEntry(w, n, topic, entry), n, topic, entry)

BucketIds(bucket) == {bucket[i].id : i \in 1..Len(bucket)}

RegistryIds(reg) == UNION {BucketIds(reg[p]) : p \in DOMAIN reg}

\* Mutant of Register: the id is numbered from the subscriptions now held,
\* not from a counter.
RegisterReuseId(w, n, pattern, cb) ==
    LET subId == Cardinality(RegistryIds(w.subs[n])) + 1
        reg == w.subs[n]
        bucket == IF pattern \in DOMAIN reg THEN reg[pattern] ELSE <<>>
    IN [w EXCEPT !.ret = subId,
                 !.counter[n] = subId,
                 !.subs[n] = [p \in DOMAIN reg \cup {pattern} |->
                                IF p = pattern
                                THEN Append(bucket, [id |-> subId, cb |-> cb])
                                ELSE reg[p]]]

\* The body of node.subscribe; the id `sub_${k}` is modelled by k
Register(w, n, pattern, cb) ==
    LET subId == w.counter[n] + 1
        reg == w.subs[n]
        bucket == IF pattern \in DOMAIN reg THEN reg[pattern] ELSE <<>>
    IN [w EXCEPT !.ret = subId,
                 !.counter[n] = subId,
                 !.subs[n] = [p \in DOMAIN reg \cup {pattern} |->
                                IF p = pattern
                                THEN Append(bucket, [id |-> subId, cb |-> cb])
                                ELSE reg[p]]]

\* Mutant of SubscribeCall: the callback is invoked for the entry the cache
\* holds for the topic.
SubscribeCallReplay(w, n, pattern, cb) ==
    LET r == Register(w, n, pattern, cb)
        held == Lookup(CacheOf(w.store, n), pattern)
    IN IF held = Absent THEN r
       ELSE InvokeCallback(r, n, [id |-> r.ret, cb |-> cb], pattern, held)

\* node.subscribe(topic, callback)
SubscribeCall(w, n, pattern, cb) == Register(w, n, pattern, cb)

\* Mutant of MapDelete: the bucket is emptied.
MapDeleteAll(bucket, id) == <<>>

\* subs.delete(subscriptionId)
MapDelete(bucket, id) == SelectSeq(bucket, LAMBDA s : s.id # id)

\* Mutant of UnsubscribeCall: a bucket left empty stays in the registry.
UnsubscribeCallKeepBucket(w, n, id) ==
    LET reg == w.subs[n]
        holders == {p \in DOMAIN reg : id \in BucketIds(reg[p])}
    IN IF holders = {} THEN w
       ELSE LET p == CHOOSE q \in holders : TRUE
            IN [w EXCEPT !.subs[n][p] = MapDelete(reg[p], id)]

\* node.unsubscribe(subscriptionId): the first bucket that holds the id loses
\* it, and is removed when that leaves it empty
UnsubscribeCall(w, n, id) ==
    LET reg == w.subs[n]
        holders == {p \in DOMAIN reg : id \in BucketIds(reg[p])}
    IN IF holders = {} THEN w
       ELSE LET p == CHOOSE q \in holders : TRUE
                rest == MapDelete(reg[p], id)
            IN IF Len(rest) = 0
               THEN [w EXCEPT !.subs[n] = [q \in DOMAIN reg \ {p} |-> reg[q]]]
               ELSE [w EXCEPT !.subs[n][p] = rest]

\* Mutant of ClearCall: the subscriptions are dropped with the entries.
ClearCallDropSubscriptions(w, n) ==
    [w EXCEPT !.store[ContextKey(n)] = <<>>, !.subs[n] = <<>>]

\* node.clear(): globalContext.set(contextKey, {})
ClearCall(w, n) == [w EXCEPT !.store[ContextKey(n)] = <<>>]

\* Mutant of Expired: an entry expires when its age reaches the TTL.
ExpiredAtTtl(entry, t, ttl) == t - entry.ts >= ttl

\* now - cache[topic].ts > node.ttl
Expired(entry, t, ttl) == t - entry.ts > ttl

\* The callback of ttlInterval: every expired entry is deleted from the
\* cache object of the node's context key.
SweepCall(w, n) ==
    [w EXCEPT !.store[ContextKey(n)] =
        SelectSeq(@, LAMBDA prop : ~Expired(prop.entry, w.clock, NodeTtl(n)))]

\* for (const input of node.inputMappings) { ... subscribe ... }: the inputs
\* from the i-th on
RECURSIVE SubscribeInputs(_, _, _)
SubscribeInputs(w, c, i) ==
    IF i > Len(InputMappings(c)) THEN w
    ELSE LET input == InputMappings(c)[i] IN
         IF input.name = "" \/ input.topic = <<>>
         THEN SubscribeInputs(w, c, i + 1)
         ELSE LET r == SubscribeCall(w, CalcCache(c), input.topic, Closure(c, i))
              IN SubscribeInputs([r EXCEPT !.calc[c].subscriptionIds = Append(@, r.ret)],
                                 c, i + 1)

\* Mutant of EventCalcNode: the constructor does not return early.
EventCalcNodeUnchecked(w, c) ==
    IF CalcCache(c) \in DOMAIN cfg THEN SubscribeInputs(w, c, 1) ELSE w

\* EventCalcNode(config): the three early returns, then the subscriptions
EventCalcNode(w, c) == IF CalcReady(c) THEN SubscribeInputs(w, c, 1) ELSE w

\* Mutant of InputHandler: msg.expression is not looked at.
InputHandlerKeepExpression(w, c, msg) ==
    IF /\ msg.payload = "recalc" \/ msg.topic = "recalc"
       /\ DOMAIN w.calc[c].latestValues # {}
    THEN TryCalculate(w, c, RecalcTrigger)
    ELSE w

\* node.on('input', ...): a new expression, a forced recalculation
InputHandler(w, c, msg) ==
    LET updated == IF msg.expression # Undefined /\ msg.expression # ExprEmpty
                   THEN [w EXCEPT !.calc[c].expression = msg.expression]
                   ELSE w
    IN IF /\ msg.payload = "recalc" \/ msg.topic = "recalc"
          /\ DOMAIN updated.calc[c].latestValues # {}
       THEN TryCalculate(updated, c, RecalcTrigger)
       ELSE updated

\* A message arrives at the calculator's input: the handler runs if the
\* constructor has registered it.
InputCall(w, c, msg) == IF CalcReady(c) THEN InputHandler(w, c, msg) ELSE w

\* for (const subId of subscriptionIds) node.cacheConfig.unsubscribe(subId):
\* the ids from the i-th on
RECURSIVE UnsubscribeInputs(_, _, _)
UnsubscribeInputs(w, c, i) ==
    IF i > Len(w.calc[c].subscriptionIds) THEN w
    ELSE UnsubscribeInputs(UnsubscribeCall(w, CalcCache(c), w.calc[c].subscriptionIds[i]),
                           c, i + 1)

\* Mutant of CloseHandler: only the first subscription is removed.
CloseHandlerFirstOnly(w, c) ==
    IF w.calc[c].subscriptionIds = <<>> THEN w
    ELSE [UnsubscribeCall(w, CalcCache(c), w.calc[c].subscriptionIds[1])
             EXCEPT !.calc[c].subscriptionIds = <<>>]

\* node.on('close', ...): every subscription of the node is removed, then
\* subscriptionIds.length = 0
CloseHandler(w, c) ==
    [UnsubscribeInputs(w, c, 1) EXCEPT !.calc[c].subscriptionIds = <<>>]

\* The runtime closes the node: the close handler runs if the constructor
\* has registered it.
CloseCall(w, c) ==
    [(IF CalcReady(c) THEN CloseHandler(w, c) ELSE w) EXCEPT !.calc[c].closed = TRUE]

----------------------------------------------------------------------------
\* EventTopicNode: constructor, input handler, close handler.

\* msg.topic of a message: not set, a number, or a string (its text).
NoTopic == [type |-> "undefined"]
NumberTopic == [type |-> "number", num |-> 7]
StringTopic(text) == [type |-> "string", text |-> text]

\* msg.topic && typeof msg.topic === 'string'
IsTopicString(topic) == topic.type = "string" /\ topic.text # <<>>

\* subscribe(): subscriptionId = node.cacheConfig.subscribe(node.topic, callback)
TopicSubscribe(w, t) ==
    LET r == SubscribeCall(w, TopicCache(t), w.topicNode[t].topic, t)
    IN [r EXCEPT !.topicNode[t].subscriptionId = r.ret]

\* const entry = node.cacheConfig.getValue(node.topic); if (entry) send(...)
TopicOutputCurrent(w, t, cause) ==
    LET entry == Lookup(CacheOf(w.store, TopicCache(t)), w.topicNode[t].topic) IN
    IF entry # Absent
    THEN TopicSend(w, t, BuildOutputMessage(t, w.topicNode[t].topic, entry), cause)
    ELSE w

\* EventTopicNode(config): the two early returns, the initial subscription,
\* and the callback given to setImmediate, which runs before any message or
\* cache write reaches the flow.
EventTopicNode(w, t) ==
    IF ~TopicReady(t) THEN w
    ELSE LET subscribed == TopicSubscribe(w, t) IN
         IF topicCfg[t].outputOnStart THEN TopicOutputCurrent(subscribed, t, "start")
         ELSE subscribed

\* Mutant of TopicInputHandler: the old subscription is kept when the topic
\* changes.
TopicInputHandlerKeepsOld(w, t, msg) ==
    LET changed == IF IsTopicString(msg.topic) /\ msg.payload = "subscribe"
                   THEN TopicSubscribe([w EXCEPT !.topicNode[t].topic = msg.topic.text], t)
                   ELSE w
    IN IF msg.payload = "refresh" THEN TopicOutputCurrent(changed, t, "refresh")
       ELSE changed

\* node.on('input', ...): a topic change (unsubscribe, node.topic = msg.topic,
\* subscribe()), then a refresh
TopicInputHandler(w, t, msg) ==
    LET changed ==
            IF IsTopicString(msg.topic) /\ msg.payload = "subscribe"
            THEN LET old == IF w.topicNode[t].subscriptionId # 0
                            THEN UnsubscribeCall(w, TopicCache(t),
                                                 w.topicNode[t].subscriptionId)
                            ELSE w
                 IN TopicSubscribe([old EXCEPT !.topicNode[t].topic = msg.topic.text], t)
            ELSE w
    IN IF msg.payload = "refresh" THEN TopicOutputCurrent(changed, t, "refresh")
       ELSE changed

\* A message arrives at the node's input: the handler runs if the
\* constructor has registered it.
TopicInputCall(w, t, msg) == IF TopicReady(t) THEN TopicInputHandler(w, t, msg) ELSE w

\* node.on('close', ...): the node's subscription is removed
TopicCloseHandler(w, t) ==
    IF w.topicNode[t].subscriptionId # 0
    THEN UnsubscribeCall(w, TopicCache(t), w.topicNode[t].subscriptionId)
    ELSE w

\* The runtime closes the node: the close handler runs if the constructor
\* has registered it.
TopicCloseCall(w, t) ==
    [(IF TopicReady(t) THEN TopicCloseHandler(w, t) ELSE w)
        EXCEPT !.topicNode[t].closed = TRUE]

----------------------------------------------------------------------------
\* EventInNode: configuration and input handler.

InIds == {"i1"}

\* Property names, as the characters of the string.
PropTopic == <<"t", "o", "p", "i", "c">>
PropPayload == <<"p", "a", "y", "l", "o", "a", "d">>
PropKey == <<"k", "e", "y">>
MsgPrefix == <<"m", "s", "g", ".">>

\* RED.nodes.getNode(config.cache): a deployed event-cache node, or null
InCache(i) == inCfg[i].cache

\* node.topicField = config.topicField || 'topic'
TopicField(i) == IF inCfg[i].topicField = <<>> THEN PropTopic ELSE inCfg[i].topicField

\* node.valueField = config.valueField || 'payload'
ValueField(i) == IF inCfg[i].valueField = <<>> THEN PropPayload ELSE inCfg[i].valueField

\* The constructor registers the input handler when the cache is configured.
InReady(i) == InCache(i) \in DOMAIN cfg

\* field.startsWith('msg.') ? field.substring(4) : field
StripMsgPrefix(field) ==
    IF Len(field) >= Len(MsgPrefix) /\ SubSeq(field, 1, Len(MsgPrefix)) = MsgPrefix
    THEN SubSeq(field, Len(MsgPrefix) + 1, Len(field))
    ELSE field

\* RED.util.getMessageProperty(msg, path) for a path without dots: the
\* property, or undefined
GetMessageProperty(msg, path) ==
    IF path \in DOMAIN msg.props THEN msg.props[path] ELSE NoTopic

\* done(err): the error is reported to the runtime
InDoneError(w, i, message) ==
    [w EXCEPT !.errors = Append(@, [node |-> i, message |-> message])]

\* send(msg): the message is noted in forwarded with the numbers of callback
\* invocations and of cache writes the call has made until then.
InSend(w, i, msg) ==
    [w EXCEPT !.forwarded = Append(@, [node |-> i, msg |-> msg,
                                       delivered |-> Len(w.deliv),
                                       wrote |-> Len(w.writes)])]

\* Mutant of EventInHandler: the message is passed on before the value is
\* pushed to the cache.
EventInHandlerSendsFirst(w, i, msg) ==
    LET topic == GetMessageProperty(msg, StripMsgPrefix(TopicField(i))) IN
    IF ~IsTopicString(topic)
    THEN InDoneError(w, i, <<"Topic not found or not a string">>)
    ELSE LET value == GetMessageProperty(msg, StripMsgPrefix(ValueField(i)))
         IN SetValueCall(InSend(w, i, msg), InCache(i), topic.text, value, msg.msgid,
                         w.clock)

\* node.on('input', ...): topic and value are taken from the message, the
\* value is pushed to the cache and the message is passed on; an exception
\* is handed to done
EventInHandler(w, i, msg) ==
    LET topic == GetMessageProperty(msg, StripMsgPrefix(TopicField(i))) IN
    IF ~IsTopicString(topic)
    THEN InDoneError(w, i, <<"Topic not found or not a string">>)
    ELSE LET value == GetMessageProperty(msg, StripMsgPrefix(ValueField(i)))
             r == SetValueCall(w, InCache(i), topic.text, value, msg.msgid, w.clock)
         IN IF r.threw
            THEN InDoneError([r EXCEPT !.threw = FALSE], i, <<"error">>)
            ELSE InSend(r, i, msg)

\* A message arrives at the node's input: the handler runs if the
\* constructor has registered it.
EventInCall(w, i, msg) == IF InReady(i) THEN EventInHandler(w, i, msg) ELSE w

\* The methods EventCacheNode puts on the node object.
NodeMethods ==
    {"setValue", "getValue", "subscribe", "unsubscribe", "getTopics", "size", "clear"}

\* node.getMatching(pattern): calling a property that is not a function
\* raises a TypeError
GetMatchingCall(w, n, pattern) ==
    IF "getMatching" \in NodeMethods THEN w ELSE [w EXCEPT !.threw = TRUE]

----------------------------------------------------------------------------
\* The actions: one API call each, made by the code that holds the node.

World == [store |-> store, subs |-> subs, counter |-> counter, deliv |-> <<>>,
          evicted |-> <<>>, logged |-> 0, threw |-> FALSE, ret |-> Undefined,
          calc |-> calc, written |-> setTopics, clock |-> now, sent |-> <<>>,
          evals |-> <<>>, writes |-> <<>>, running |-> 0, depth |-> 0,
          exhausted |-> FALSE, listeners |-> listeners, topicNode |-> topicNode,
          emitted |-> <<>>, forwarded |-> <<>>, errors |-> <<>>]

\* last: the call's name and arguments (op, node, topic, value, metadata, id;
\* calc and msg for a message to a calculator; target and msg for a message
\* to an event-topic or event-in node), the entry a setValue
\* constructed, the entry its topic had before (had), and the call's outcome
\* as left in w.
NoCall ==
    [op |-> "none", node |-> "none", topic |-> <<>>, value |-> 0, metadata |-> Undefined,
     id |-> 0, entry |-> Absent, had |-> Absent, deliv |-> <<>>, evicted |-> <<>>,
     threw |-> FALSE, logged |-> 0, ret |-> Undefined,
     calc |-> "none", msg |-> Undefined, sent |-> <<>>, evals |-> <<>>, writes |-> <<>>,
     exhausted |-> FALSE, target |-> "none", emitted |-> <<>>, forwarded |-> <<>>,
     errors |-> <<>>]

\* The call returned w: its effects become the state, its outcome is noted in last.
Returns(w, call) ==
    /\ store' = w.store
    /\ subs' = w.subs
    /\ counter' = w.counter
    /\ calc' = w.calc
    /\ setTopics' = w.written
    /\ last' = [call EXCEPT !.deliv = w.deliv, !.evicted = w.evicted, !.threw = w.threw,
                             !.logged = w.logged, !.ret = w.ret, !.sent = w.sent,
                             !.evals = w.evals, !.writes = w.writes,
                             !.exhausted = w.exhausted, !.emitted = w.emitted,
                             !.forwarded = w.forwarded, !.errors = w.errors]
    /\ topicNode' = w.topicNode
    /\ ops' = ops + 1
    /\ issued' = IF call.op = "subscribe" THEN issued \cup {<<call.node, w.ret>>}
                 ELSE issued

SetValue(n, topic, value, metadata) ==
    /\ ops < MaxOps
    /\ Returns(SetValueCall(World, n, topic, value, metadata, now),
               [NoCall EXCEPT !.op = "setValue", !.node = n, !.topic = topic,
                              !.value = value, !.metadata = metadata,
                              !.entry = NewEntry(value, metadata, now),
                              !.had = GetValue(n, topic)])
    /\ UNCHANGED <<cfg, topicCfg, inCfg, users, listeners, calcCfg, now, dead, timer>>

Subscribe(n, pattern, cb) ==
    /\ ops < MaxOps
    /\ counter[n] < MaxSubs
    /\ Returns(SubscribeCall(World, n, pattern, cb),
               [NoCall EXCEPT !.op = "subscribe", !.node = n, !.topic = pattern])
    /\ UNCHANGED <<cfg, topicCfg, inCfg, users, listeners, calcCfg, now, dead, timer>>

Unsubscribe(n, id) ==
    /\ ops < MaxOps
    /\ Returns(UnsubscribeCall(World, n, id),
               [NoCall EXCEPT !.op = "unsubscribe", !.node = n, !.id = id])
    /\ dead' = IF id \in RegistryIds(subs[n]) THEN dead \cup {<<n, id>>} ELSE dead
    /\ UNCHANGED <<cfg, topicCfg, inCfg, users, listeners, calcCfg, now, timer>>

Clear(n) ==
    /\ ops < MaxOps
    /\ Returns(ClearCall(World, n), [NoCall EXCEPT !.op = "clear", !.node = n])
    /\ UNCHANGED <<cfg, topicCfg, inCfg, users, listeners, calcCfg, now, dead, timer>>

GetMatching(n, pattern) ==
    /\ ops < MaxOps
    /\ Returns(GetMatchingCall(World, n, pattern),
               [NoCall EXCEPT !.op = "getMatching", !.node = n, !.topic = pattern])
    /\ UNCHANGED <<cfg, topicCfg, inCfg, users, listeners, calcCfg, now, dead, timer>>

\* A message arrives at the input of calculator c (the runtime delivers none
\* to a node it has closed).
CalcInput(c, msg) ==
    /\ ops < MaxOps
    /\ ~calc[c].closed
    /\ Returns(InputCall(World, c, msg),
               [NoCall EXCEPT !.op = "input", !.calc = c, !.msg = msg])
    /\ UNCHANGED <<cfg, topicCfg, inCfg, users, listeners, calcCfg, now, dead, timer>>

\* The runtime closes calculator c (the flow is stopped or redeployed).
CalcClose(c) ==
    /\ ops < MaxOps
    /\ ~calc[c].closed
    /\ Returns(CloseCall(World, c), [NoCall EXCEPT !.op = "close", !.calc = c])
    /\ dead' = dead \cup
                  {x \in {<<CalcCache(c), calc[c].subscriptionIds[i]>> :
                             i \in 1..Len(calc[c].subscriptionIds)} : CalcReady(c)}
    /\ UNCHANGED <<cfg, topicCfg, inCfg, users, listeners, calcCfg, now, timer>>

\* A message arrives at the input of event-topic node t.
TopicInput(t, msg) ==
    /\ ops < MaxOps
    /\ ~topicNode[t].closed
    /\ Returns(TopicInputCall(World, t, msg),
               [NoCall EXCEPT !.op = "topicInput", !.target = t, !.msg = msg])
    /\ dead' = IF /\ TopicReady(t)
                  /\ IsTopicString(msg.topic) /\ msg.payload = "subscribe"
                  /\ topicNode[t].subscriptionId # 0
               THEN dead \cup {<<TopicCache(t), topicNode[t].subscriptionId>>}
               ELSE dead
    /\ UNCHANGED <<cfg, topicCfg, inCfg, users, listeners, calcCfg, now, timer>>

\* The runtime closes event-topic node t.
TopicClose(t) ==
    /\ ops < MaxOps
    /\ ~topicNode[t].closed
    /\ Returns(TopicCloseCall(World, t), [NoCall EXCEPT !.op = "topicClose", !.target = t])
    /\ dead' = IF TopicReady(t) /\ topicNode[t].subscriptionId # 0
               THEN dead \cup {<<TopicCache(t), topicNode[t].subscriptionId>>}
               ELSE dead
    /\ UNCHANGED <<cfg, topicCfg, inCfg, users, listeners, calcCfg, now, timer>>

\* A message arrives at the input of event-in node i.
EventIn(i, msg) ==
    /\ ops < MaxOps
    /\ Returns(EventInCall(World, i, msg),
               [NoCall EXCEPT !.op = "eventIn", !.target = i, !.msg = msg])
    /\ UNCHANGED <<cfg, topicCfg, inCfg, users, listeners, calcCfg, now, dead, timer>>

\* The shared instance of node n with the node's timer and cache object, as
\* the close handler sees them.
Instance(n) ==
    [users |-> users[n], listeners |-> listeners[n], subscriptions |-> subs[n],
     ttlInterval |-> timer[n].armed, cache |-> CacheOf(store, n)]

\* Mutant of CacheCloseHandler: the context cache is emptied with the
\* registry.
CacheCloseHandlerClearsCache(inst) ==
    LET left == [inst EXCEPT !.ttlInterval = FALSE, !.users = @ - 1] IN
    IF left.users <= 0
    THEN [left EXCEPT !.subscriptions = <<>>, !.listeners = 0, !.cache = <<>>]
    ELSE left

\* node.on('close', ...) of EventCacheNode: clearInterval, instance.users--,
\* and with no user left subscriptions.clear(), removeAllListeners() and
\* sharedInstances.delete(instanceKey)
CacheCloseHandler(inst) ==
    LET left == [inst EXCEPT !.ttlInterval = FALSE, !.users = @ - 1] IN
    IF left.users <= 0
    THEN [left EXCEPT !.subscriptions = <<>>, !.listeners = 0]
    ELSE left

\* The runtime closes event-cache node n (the flow is stopped or
\* redeployed); a node is closed once.
CacheClose(n) ==
    /\ ops < MaxOps
    /\ users[n] > 0
    /\ LET r == CacheCloseHandler(Instance(n)) IN
         /\ users' = [users EXCEPT ![n] = r.users]
         /\ listeners' = [listeners EXCEPT ![n] = r.listeners]
         /\ subs' = [subs EXCEPT ![n] = r.subscriptions]
         /\ timer' = [timer EXCEPT ![n].armed = r.ttlInterval]
         /\ store' = [store EXCEPT ![ContextKey(n)] = r.cache]
    /\ ops' = ops + 1
    /\ last' = [NoCall EXCEPT !.op = "cacheClose", !.node = n]
    /\ UNCHANGED <<cfg, topicCfg, inCfg, calcCfg, counter, now, dead, issued, calc, setTopics,
                   topicNode>>

\* The runtime constructs event-cache node n again after it has closed it
\* (redeploy): sharedInstances has no instance for the id, so a new one is
\* made; the context cache is there already and is kept; the timer is set
\* as the TTL says.
CacheConstruct(n) ==
    /\ ops < MaxOps
    /\ users[n] = 0
    /\ users' = [users EXCEPT ![n] = 1]
    /\ listeners' = [listeners EXCEPT ![n] = 1]
    /\ subs' = [subs EXCEPT ![n] = <<>>]
    /\ counter' = [counter EXCEPT ![n] = 0]
    /\ timer' = [timer EXCEPT ![n] = NewTimer(n, now)]
    /\ ops' = ops + 1
    /\ last' = [NoCall EXCEPT !.op = "cacheConstruct", !.node = n]
    /\ UNCHANGED <<cfg, topicCfg, inCfg, calcCfg, store, now, dead, issued, calc, setTopics,
                   topicNode>>

\* The interval timer of node n fires: at its due time or later, as the
\* event loop allows; it is due again one interval after it has fired.
Sweep(n) ==
    /\ timer[n].armed
    /\ now >= timer[n].due
    /\ LET w == SweepCall(World, n) IN
         /\ store' = w.store
         /\ subs' = w.subs
         /\ counter' = w.counter
         /\ last' = [NoCall EXCEPT !.op = "sweep", !.node = n, !.deliv = w.deliv,
                                    !.threw = w.threw, !.logged = w.logged]
    /\ timer' = [timer EXCEPT ![n].due = now + SweepInterval(n)]
    /\ UNCHANGED <<cfg, topicCfg, inCfg, users, listeners, calcCfg, now, dead, ops, issued, calc,
                   setTopics, topicNode>>

\* The clock advances between calls (Date.now() is taken as non-decreasing);
\* calls made within the same millisecond get the same ts.
Tick ==
    /\ now < MaxTime
    /\ now' = now + 1
    /\ UNCHANGED <<cfg, topicCfg, inCfg, users, listeners, store, subs, counter, dead, ops, last,
                   issued, calcCfg, calc, setTopics, timer, topicNode>>

----------------------------------------------------------------------------
\* Deployments: one event-cache node; or two, whose names may sanitize to the
\* same context key.

\* config.maxEntries: 0 (whatever parseInt turns into 0 or NaN) and the
\* positive limits.
CfgMaxEntries == 0..MaxCfgEntries

Deployments ==
    { [n \in {"n1"} |-> [name |-> NameUnset, maxEntries |-> m, ttl |-> 0]] : m \in CfgMaxEntries }

SharedDeployments ==
    { [n \in NodeIds |-> IF n = "n1" THEN [name |-> NameC1Dash, maxEntries |-> m[1], ttl |-> 0]
                         ELSE [name |-> nm, maxEntries |-> m[2], ttl |-> 0]] :
        m \in (1..MaxCfgEntries) \X (1..MaxCfgEntries), nm \in {NameC1Under, NameUnset} }

InitWith(deployments) ==
    /\ cfg \in deployments
    /\ store = [k \in {ContextKey(n) : n \in DOMAIN cfg} |-> <<>>]
    /\ subs = [n \in DOMAIN cfg |-> <<>>]
    /\ counter = [n \in DOMAIN cfg |-> 0]
    /\ now = 0
    /\ dead = {}
    /\ ops = 0
    /\ last = NoCall
    /\ issued = {}
    /\ calcCfg = <<>>
    /\ calc = <<>>
    /\ setTopics = {}
    /\ timer = [n \in DOMAIN cfg |-> NewTimer(n, 0)]
    /\ users = [n \in DOMAIN cfg |-> 1]
    /\ listeners = [n \in DOMAIN cfg |-> 1]
    /\ topicCfg = <<>>
    /\ topicNode = <<>>
    /\ inCfg = <<>>

Next ==
    \/ \E n \in Deployed, topic \in Topics, p \in Payloads : SetValue(n, topic, p[1], p[2])
    \/ \E n \in Deployed, pattern \in Patterns, cb \in CbKinds : Subscribe(n, pattern, cb)
    \/ \E n \in Deployed, id \in 0..MaxSubs : Unsubscribe(n, id)
    \/ \E n \in Deployed : Clear(n)
    \/ \E n \in Deployed, pattern \in QueryPatterns : GetMatching(n, pattern)
    \/ Tick

Init == InitWith(Deployments)

Spec == Init /\ [][Next]_vars

InitShared == InitWith(SharedDeployments)

SpecShared == InitShared /\ [][Next]_vars

----------------------------------------------------------------------------
\* Deployments with a TTL: one event-cache node n1 whose config.ttl is 0, 1
\* or 60001 milliseconds, with maxEntries not set or 1.
TtlValues == {0, 1, MaxSweepInterval + 1}

TtlDeployments ==
    { [n \in {"n1"} |-> [name |-> NameUnset, maxEntries |-> m, ttl |-> t]] :
        m \in {0, 1}, t \in TtlValues }

\* Time passes: a millisecond, or the longest sweep interval.
Advance(d) ==
    /\ d = 1 => now % MaxSweepInterval < MaxTtlTime
    /\ d = MaxSweepInterval => now \div MaxSweepInterval < MaxLongTicks
    /\ now' = now + d
    /\ UNCHANGED <<cfg, topicCfg, inCfg, users, listeners, store, subs, counter, dead, ops, last,
                   issued, calcCfg, calc, setTopics, timer, topicNode>>

NextTtl ==
    \/ \E n \in Deployed, topic \in {TopicSensor1, Topic7} : SetValue(n, topic, 1, Undefined)
    \/ \E n \in Deployed : Subscribe(n, TopicSensor1, "ok")
    \/ \E n \in Deployed : Clear(n)
    \/ \E n \in Deployed : Sweep(n)
    \/ \E d \in {1, MaxSweepInterval} : Advance(d)

InitTtl == InitWith(TtlDeployments)

SpecTtl == InitTtl /\ [][NextTtl]_vars

----------------------------------------------------------------------------
\* Deployments with calculators: one event-cache node n1 and the event-calc
\* nodes built on it, in the order c1, c2.

InputAX == [name |-> "a", topic |-> TopicX]
InputAY == [name |-> "a", topic |-> TopicY]
InputBY == [name |-> "b", topic |-> TopicY]
InputBOut == [name |-> "b", topic |-> DefaultOutputTopic]

\* The config object of an event-calc node; externalTrigger is the checkbox
\* of the node's edit dialog, not ticked by default.
CalcConfig(cache, inputMappings, expression, triggerOn, outputTopic) ==
    [cache |-> cache, inputMappings |-> inputMappings, expression |-> expression,
     triggerOn |-> triggerOn, outputTopic |-> outputTopic, externalTrigger |-> FALSE]

\* The same config with the External Trigger checkbox ticked.
WithExternalTrigger(config) == [config EXCEPT !.externalTrigger = TRUE]

OneCalc(config) == [c \in {"c1"} |-> config]

TwoCalcs(config1, config2) == [c \in CalcIds |-> IF c = "c1" THEN config1 ELSE config2]

\* config.triggerOn: not set ('any'), and 'all'.
TriggerPolicies == {"", "all"}

\* The cache the calculators are built on: maxEntries not set, and 1.
CalcCaches == { [n \in {"n1"} |-> [name |-> NameUnset, maxEntries |-> m, ttl |-> 0]] :
                    m \in {0, 1} }

\* Calculators of which none feeds itself through another one: two inputs x
\* and y; an input that is the calculator's own output topic; c1 feeding c2;
\* an output topic that is an integer-like key; the three configurations the
\* constructor gives up on; and a calculator with External Trigger ticked.
CalcDeployments ==
    { OneCalc(CalcConfig("n1", <<InputAX, InputBY>>, e, tr, <<>>)) :
        e \in {ExprAPlusB, ExprADivZero, ExprZeroDivZero, ExprSyntaxError},
        tr \in TriggerPolicies }
    \cup { OneCalc(CalcConfig("n1", <<InputAX, InputBOut>>, ExprAPlusB, tr, <<>>)) :
               tr \in TriggerPolicies }
    \cup { TwoCalcs(CalcConfig("n1", <<InputAX>>, ExprA, "", TopicY),
                    CalcConfig("n1", <<InputAY>>, ExprADivZero, "", <<>>)),
           OneCalc(CalcConfig("n1", <<InputAX>>, ExprA, "", Topic7)),
           OneCalc(CalcConfig("none", <<InputAX, InputBY>>, ExprAPlusB, "", <<>>)),
           OneCalc(CalcConfig("n1", <<>>, ExprAPlusB, "", <<>>)),
           OneCalc(CalcConfig("n1", <<InputAX, InputBY>>, ExprEmpty, "", <<>>)),
           OneCalc(WithExternalTrigger(
                       CalcConfig("n1", <<InputAX, InputBY>>, ExprAPlusB, "", <<>>))) }

\* Two calculators, each having the other one's output topic as its input.
LoopDeployments ==
    { TwoCalcs(CalcConfig("n1", <<InputAX>>, ExprA, tr, TopicY),
               CalcConfig("n1", <<InputAY>>, ExprA, tr, TopicX)) : tr \in TriggerPolicies }

\* The state the constructors start from: empty caches, no subscription.
NewWorld ==
    [store |-> [k \in {ContextKey(n) : n \in DOMAIN cfg} |-> <<>>],
     subs |-> [n \in DOMAIN cfg |-> <<>>],
     counter |-> [n \in DOMAIN cfg |-> 0],
     deliv |-> <<>>, evicted |-> <<>>, logged |-> 0, threw |-> FALSE, ret |-> Undefined,
     calc |-> [c \in DOMAIN calcCfg |-> [expression |-> calcCfg[c].expression,
                                         latestValues |-> <<>>,
                                         subscriptionIds |-> <<>>,
                                         closed |-> FALSE]],
     written |-> {}, clock |-> 0, sent |-> <<>>, evals |-> <<>>, writes |-> <<>>,
     running |-> 0, depth |-> 0, exhausted |-> FALSE,
     listeners |-> [n \in DOMAIN cfg |-> 1],
     topicNode |-> [t \in DOMAIN topicCfg |-> [topic |-> ConfiguredTopic(t),
                                               subscriptionId |-> 0,
                                               closed |-> FALSE]],
     emitted |-> <<>>, forwarded |-> <<>>, errors |-> <<>>]

\* The event-calc nodes are constructed: c1, then c2 when there is one.
Constructed ==
    LET first == EventCalcNode(NewWorld, "c1") IN
    IF "c2" \in DOMAIN calcCfg THEN EventCalcNode(first, "c2") ELSE first

InitCalcWith(caches, calculators) ==
    /\ cfg \in caches
    /\ calcCfg \in calculators
    /\ topicCfg = <<>>
    /\ inCfg = <<>>
    /\ store = Constructed.store
    /\ subs = Constructed.subs
    /\ counter = Constructed.counter
    /\ calc = Constructed.calc
    /\ issued = {<<n, id>> : n \in DOMAIN cfg, id \in 1..MaxSubs} \cap
                {x \in (DOMAIN cfg) \X (1..MaxSubs) : x[2] <= Constructed.counter[x[1]]}
    /\ setTopics = {}
    /\ timer = [n \in DOMAIN cfg |-> NewTimer(n, 0)]
    /\ users = [n \in DOMAIN cfg |-> 1]
    /\ listeners = [n \in DOMAIN cfg |-> 1]
    /\ topicNode = <<>>
    /\ now = 0
    /\ dead = {}
    /\ ops = 0
    /\ last = NoCall

NextCalc ==
    \/ \E n \in Deployed, topic \in CalcTopics, value \in CalcValues :
          SetValue(n, topic, value, Undefined)
    \/ \E c \in DOMAIN calcCfg, msg \in CalcMsgs : CalcInput(c, msg)

InitCalc == InitCalcWith(CalcCaches, CalcDeployments)

SpecCalc == InitCalc /\ [][NextCalc]_vars

InitLoop == InitCalcWith(CalcCaches, LoopDeployments)

SpecLoop == InitLoop /\ [][NextCalc]_vars

\* Calculators that are closed while the cache is in use: c1 feeding c2; c1
\* and c2 subscribed to the same topic; one calculator with two inputs; and
\* one that the constructor gave up on. Other components subscribe to the
\* topics too.
CloseDeployments ==
    { TwoCalcs(CalcConfig("n1", <<InputAX>>, ExprA, "", TopicY),
               CalcConfig("n1", <<InputAY>>, ExprADivZero, "", <<>>)),
      TwoCalcs(CalcConfig("n1", <<InputAX>>, ExprA, "", TopicY),
               CalcConfig("n1", <<InputAX>>, ExprADivZero, "", <<>>)),
      OneCalc(CalcConfig("n1", <<InputAX, InputBY>>, ExprAPlusB, "", <<>>)),
      OneCalc(CalcConfig("n1", <<InputAX>>, ExprA, "all", <<>>)),
      OneCalc(CalcConfig("none", <<InputAX, InputBY>>, ExprAPlusB, "", <<>>)) }

NextClose ==
    \/ NextCalc
    \/ \E c \in DOMAIN calcCfg : CalcClose(c)
    \/ \E n \in Deployed, topic \in {TopicX, TopicY} : Subscribe(n, topic, "ok")

InitClose == InitCalcWith(CalcCaches, CloseDeployments)

SpecClose == InitClose /\ [][NextClose]_vars

\* A calculator whose output topic is the trigger name of a forced
\* recalculation, and one whose expression yields an object that has no
\* text.
EdgeDeployments ==
    { OneCalc(CalcConfig("n1", <<InputAX>>, e[1], tr, e[2])) :
        e \in {<<ExprA, RecalcTrigger>>, <<ExprNullProto, <<>> >>},
        tr \in TriggerPolicies }

InitEdge == InitCalcWith(CalcCaches, EdgeDeployments)

SpecEdge == InitEdge /\ [][NextCalc]_vars

\* An event-topic node t1 on event-cache node n1, with other subscribers:
\* the three output formats, with and without output on start; a node
\* configured with the old `pattern` property; a node without a topic and
\* one without a cache.
TopicConfig(cache, topic, pattern, outputFormat, outputOnStart) ==
    [cache |-> cache, topic |-> topic, pattern |-> pattern,
     outputFormat |-> outputFormat, outputOnStart |-> outputOnStart]

OneTopicNode(config) == [t \in TopicIds |-> config]

TopicDeployments ==
    { OneTopicNode(TopicConfig("n1", TopicX, <<>>, f, s)) :
          f \in {"", "full", "raw"}, s \in BOOLEAN }
    \cup { OneTopicNode(TopicConfig("n1", <<>>, TopicY, "", FALSE)),
           OneTopicNode(TopicConfig("n1", <<>>, <<>>, "", FALSE)),
           OneTopicNode(TopicConfig("none", TopicX, <<>>, "", FALSE)) }

\* Messages to the node's input: topic changes with every kind of msg.topic,
\* a refresh, and a message that is neither.
TopicMsgs ==
    { [topic |-> tp, payload |-> "subscribe"] :
          tp \in {NoTopic, NumberTopic, StringTopic(<<>>), StringTopic(TopicX),
                  StringTopic(TopicY)} }
    \cup { [topic |-> NoTopic, payload |-> "refresh"],
           [topic |-> StringTopic(TopicY), payload |-> "other"] }

InitTopic ==
    /\ cfg \in CalcCaches
    /\ topicCfg \in TopicDeployments
    /\ calcCfg = <<>>
    /\ inCfg = <<>>
    /\ LET constructed == EventTopicNode(NewWorld, "t1") IN
         /\ store = constructed.store
         /\ subs = constructed.subs
         /\ counter = constructed.counter
         /\ calc = constructed.calc
         /\ topicNode = constructed.topicNode
    /\ issued = {}
    /\ setTopics = {}
    /\ timer = [n \in DOMAIN cfg |-> NewTimer(n, 0)]
    /\ users = [n \in DOMAIN cfg |-> 1]
    /\ listeners = [n \in DOMAIN cfg |-> 1]
    /\ now = 0
    /\ dead = {}
    /\ ops = 0
    /\ last = NoCall

NextTopic ==
    \/ \E n \in Deployed, topic \in {TopicX, TopicY}, value \in {Num(1), Num(2)} :
          SetValue(n, topic, value, Undefined)
    \/ \E n \in Deployed, topic \in {TopicX, TopicY} : Subscribe(n, topic, "ok")
    \/ \E t \in DOMAIN topicCfg, msg \in TopicMsgs : TopicInput(t, msg)
    \/ \E t \in DOMAIN topicCfg : TopicClose(t)

SpecTopic == InitTopic /\ [][NextTopic]_vars

\* An event-in node i1 on event-cache node n1, with subscribers: the fields
\* left at their defaults, given with and without the msg. prefix, a topic
\* taken from another property; and a node without a cache.
InConfig(cache, topicField, valueField) ==
    [cache |-> cache, topicField |-> topicField, valueField |-> valueField]

InDeployments ==
    { [i \in InIds |-> InConfig("n1", tf, vf)] :
          tf \in {<<>>, MsgPrefix \o PropTopic, PropKey},
          vf \in {<<>>, MsgPrefix \o PropPayload} }
    \cup { [i \in InIds |-> InConfig("none", <<>>, <<>>)] }

\* A message with the properties topic, key and payload, and its _msgid.
Message(topic, key, payload) ==
    [props |-> [p \in {PropTopic, PropKey, PropPayload} |->
                  IF p = PropTopic THEN topic ELSE IF p = PropKey THEN key ELSE payload],
     msgid |-> "m1"]

\* Messages to the node's input: every kind of msg.topic, a msg.key that is
\* a topic or not set, a payload that is a number or not set.
InMsgs ==
    { Message(tp, k, pl) :
          tp \in {NoTopic, NumberTopic, StringTopic(<<>>), StringTopic(TopicX)},
          k \in {NoTopic, StringTopic(TopicY)},
          pl \in {NoTopic, NumberTopic} }

InitIn ==
    /\ cfg \in CalcCaches
    /\ inCfg \in InDeployments
    /\ calcCfg = <<>>
    /\ topicCfg = <<>>
    /\ store = NewWorld.store
    /\ subs = NewWorld.subs
    /\ counter = NewWorld.counter
    /\ calc = <<>>
    /\ topicNode = <<>>
    /\ issued = {}
    /\ setTopics = {}
    /\ timer = [n \in DOMAIN cfg |-> NewTimer(n, 0)]
    /\ users = [n \in DOMAIN cfg |-> 1]
    /\ listeners = [n \in DOMAIN cfg |-> 1]
    /\ now = 0
    /\ dead = {}
    /\ ops = 0
    /\ last = NoCall

NextIn ==
    \/ \E i \in DOMAIN inCfg, msg \in InMsgs : EventIn(i, msg)
    \/ \E n \in Deployed, topic \in {TopicX, TopicY}, cb \in CbKinds : Subscribe(n, topic, cb)

SpecIn == InitIn /\ [][NextIn]_vars

\* One event-cache node that the runtime closes and constructs again, with
\* a TTL of 0 or 1 and maxEntries not set or 1, while others write to it and
\* subscribe to it, also through a reference to the closed node.
RedeployDeployments ==
    { [n \in {"n1"} |-> [name |-> NameUnset, maxEntries |-> m, ttl |-> t]] :
        m \in {0, 1}, t \in {0, 1} }

NextRedeploy ==
    \/ \E n \in Deployed, topic \in {TopicSensor1, Topic7} : SetValue(n, topic, 1, Undefined)
    \/ \E n \in Deployed : Subscribe(n, TopicSensor1, "ok")
    \/ \E n \in Deployed : CacheClose(n)
    \/ \E n \in Deployed : CacheConstruct(n)
    \/ \E n \in Deployed : Sweep(n)
    \/ Advance(1)

InitRedeploy == InitWith(RedeployDeployments)

SpecRedeploy == InitRedeploy /\ [][NextRedeploy]_vars

\* Calculators on a cache that evicts, expires and is cleared: c1 computing
\* y from x and c2, subscribed after it, computing from x and y; and a
\* calculator that has its own output topic among its inputs.
FanCaches == { [n \in {"n1"} |-> [name |-> NameUnset, maxEntries |-> x[1], ttl |-> x[2]]] :
                   x \in {<<0, 0>>, <<1, 0>>, <<0, 1>>} }

FanDeployments ==
    { TwoCalcs(CalcConfig("n1", <<InputAX>>, ExprA, "", TopicY),
               CalcConfig("n1", <<InputAX, InputBY>>, ExprAPlusB, tr, <<>>)) :
          tr \in TriggerPolicies }
    \cup { OneCalc(CalcConfig("n1", <<InputAX, InputBOut>>, ExprAPlusB, tr, <<>>)) :
               tr \in TriggerPolicies }

\* A forced recalculation
RecalcMsg == [payload |-> "recalc", topic |-> Undefined, expression |-> Undefined]

NextFan ==
    \/ \E n \in Deployed, topic \in {TopicX, TopicY}, value \in {Num(1), Num(2)} :
          SetValue(n, topic, value, Undefined)
    \/ \E n \in Deployed : SetValue(n, DefaultOutputTopic, Num(1), Undefined)
    \/ \E c \in DOMAIN calcCfg : CalcInput(c, RecalcMsg)
    \/ \E n \in Deployed : Clear(n)
    \/ \E n \in Deployed : Sweep(n)
    \/ Advance(1)

InitFan == InitCalcWith(FanCaches, FanDeployments)

SpecFan == InitFan /\ [][NextFan]_vars

----------------------------------------------------------------------------
\* Properties of the cache (C1 - C3).

\* The step is an API call (Tick and stuttering leave ops alone).
IsCall(op) == ops' = ops + 1 /\ last'.op = op

\* C1: whenever a setValue has returned, size() of the node it was called on
\* is at most that node's maxEntries.
C1_SizeWithinMaxEntries ==
    last.op = "setValue" => Size(last.node) <= NodeMaxEntries(last.node)

\* C2: a setValue that makes the number of entries exceed maxEntries removes
\* exactly one entry, one whose timestamp is the minimum over the entries
\* stored at that moment, the written one included; a setValue that does not
\* removes none; every entry that is kept, other than the written one, is
\* unchanged.
C2_EvictsExactlyOneOldest ==
    [][IsCall("setValue") =>
        LET n == last'.node
            pre == CacheOf(store, n)
            post == CacheOf(store', n)
            written == KeysOf(pre) \cup {last'.topic}
            stored(k) == IF k = last'.topic THEN last'.entry ELSE Lookup(pre, k)
            removed == written \ KeysOf(post)
        IN /\ KeysOf(post) \subseteq written
           /\ \A k \in KeysOf(post) : Lookup(post, k) = stored(k)
           /\ removed = {last'.evicted[i] : i \in 1..Len(last'.evicted)}
           /\ IF Cardinality(written) > NodeMaxEntries(n)
              THEN /\ Cardinality(removed) = 1
                   /\ \A k \in removed : \A j \in written : stored(k).ts <= stored(j).ts
              ELSE removed = {}]_vars

\* C2's case: a setValue has evicted an entry while another one was kept.
C2_Witness ==
    /\ last.op = "setValue"
    /\ Len(last.evicted) = 1
    /\ Size(last.node) >= 2

\* C3: when a setValue(topic, v, m) evicts nothing, getValue(topic) returns
\* the entry {value: v, metadata: m, ts} with ts not before the call and not
\* after its return, whatever the topic held before; size() is unchanged when
\* the topic was already cached; and only setValue and clear change what
\* getValue returns.
C3_GetAfterSet ==
    [][/\ IsCall("setValue") /\ last'.evicted = <<>> =>
            LET n == last'.node
                got == Lookup(CacheOf(store', n), last'.topic)
            IN /\ got = [value |-> last'.value, ts |-> got.ts,
                         metadata |-> IF last'.metadata = Undefined
                                      THEN EmptyObject ELSE last'.metadata]
               /\ now <= got.ts /\ got.ts <= now'
               /\ HasKey(CacheOf(store, n), last'.topic) =>
                     Len(CacheOf(store', n)) = Len(CacheOf(store, n))
       /\ ~IsCall("setValue") /\ ~IsCall("clear") => store' = store]_vars

\* C3's case: a topic that held an entry with other value and metadata has
\* been written again, nothing was evicted and another topic is cached.
C3_Witness ==
    /\ last.op = "setValue"
    /\ last.had # Absent
    /\ last.had.value # last.value
    /\ last.had.metadata # last.entry.metadata
    /\ last.evicted = <<>>
    /\ Size(last.node) >= 2
    /\ GetValue(last.node, last.topic) = last.entry

----------------------------------------------------------------------------
\* Properties of the dispatch and of the registry (C4 - C10).

Deliveries == {last.deliv[i] : i \in 1..Len(last.deliv)}

\* How many times the last call invoked the callback of subscription id of n.
TimesInvoked(n, id) ==
    Cardinality({i \in 1..Len(last.deliv) :
                    last.deliv[i].node = n /\ last.deliv[i].id = id})

\* The subscriptions of n registered under pattern.
Bucket(n, pattern) == IF pattern \in DOMAIN subs[n] THEN subs[n][pattern] ELSE <<>>

\* C4: a setValue(T, ...) invokes the callback of every subscription to
\* exactly T once, with (T, the entry just written), and the callback of no
\* subscription to another topic.
C4_ExactTopicDispatch ==
    last.op = "setValue" =>
        /\ \A d \in Deliveries : d.topic = last.topic /\ d.entry = last.entry
        /\ \A n \in Deployed : \A p \in DOMAIN subs[n] : \A id \in BucketIds(subs[n][p]) :
              TimesInvoked(n, id) = IF n = last.node /\ p = last.topic THEN 1 ELSE 0

\* C4's case: a setValue on a topic with a subscriber, while another topic
\* has a subscriber too.
C4_Witness ==
    /\ last.op = "setValue"
    /\ Len(last.deliv) = 1
    /\ \E p \in DOMAIN subs[last.node] : p \in Topics /\ p # last.topic

\* C5 as stated: every callback is handed the written entry and, calling
\* getValue on the written topic, gets that entry; nothing is delivered
\* outside a setValue.
C5_CallbackSeesEntry ==
    /\ last.op # "setValue" => last.deliv = <<>>
    /\ last.op = "setValue" =>
          \A d \in Deliveries : d.entry = last.entry /\ d.seen = d.entry

\* C5 amended: the callbacks run after the store-and-evict step and before
\* setValue returns, so getValue on the written topic, called in a callback
\* (none of which writes to the cache here), returns what it returns after
\* the call: the entry handed, or nothing when the eviction of this very
\* write removed the written entry.
C5_CallbackSeesStoredState ==
    /\ last.op # "setValue" => last.deliv = <<>>
    /\ last.op = "setValue" =>
          \A d \in Deliveries :
              /\ d.entry = last.entry
              /\ d.seen = GetValue(last.node, last.topic)
              /\ d.seen = IF last.evicted = <<last.topic>> THEN Absent ELSE last.entry

\* C5's case: a callback was invoked for an entry that its own write evicted.
C5_Witness ==
    /\ last.op = "setValue"
    /\ last.deliv # <<>>
    /\ last.evicted = <<last.topic>>

\* C6: when callbacks raise, every callback subscribed to the written topic is
\* still invoked once, setValue does not raise, each error is logged, and the
\* entry that was in the cache when the callbacks ran is still there.
C6_CallbackErrorsIsolated ==
    last.op = "setValue" =>
        LET bucket == Bucket(last.node, last.topic) IN
        /\ ~last.threw
        /\ \A id \in BucketIds(bucket) : TimesInvoked(last.node, id) = 1
        /\ last.logged = Cardinality({i \in 1..Len(bucket) : bucket[i].cb = "throw"})
        /\ \A d \in Deliveries : d.seen = GetValue(last.node, last.topic)

\* C6's case: the first callback of the written topic raised, a second one
\* was invoked after it, and the entry is in the cache.
C6_Witness ==
    /\ last.op = "setValue"
    /\ Len(Bucket(last.node, last.topic)) = 2
    /\ Bucket(last.node, last.topic)[1].cb = "throw"
    /\ Bucket(last.node, last.topic)[2].cb = "ok"
    /\ Len(last.deliv) = 2
    /\ GetValue(last.node, last.topic) = last.entry

\* The matching the README documents: ? is one character, * is one or more,
\* anchored at both ends.
RECURSIVE WildcardMatch(_, _)
WildcardMatch(pattern, topic) ==
    IF pattern = <<>> THEN topic = <<>>
    ELSE IF Head(pattern) = "*"
    THEN \E k \in 1..Len(topic) :
            WildcardMatch(Tail(pattern), SubSeq(topic, k + 1, Len(topic)))
    ELSE /\ topic # <<>>
         /\ Head(pattern) = "?" \/ Head(pattern) = Head(topic)
         /\ WildcardMatch(Tail(pattern), Tail(topic))

\* C7: a setValue invokes the callback of a subscription exactly when the
\* subscription's pattern, with its wildcards, matches the written topic.
C7_WildcardDispatch ==
    last.op = "setValue" =>
        \A p \in DOMAIN subs[last.node] : \A id \in BucketIds(subs[last.node][p]) :
            TimesInvoked(last.node, id) = IF WildcardMatch(p, last.topic) THEN 1 ELSE 0

\* C8: getMatching(pattern) returns the cached (topic, entry) pairs whose
\* topic matches the pattern, raises nothing, invokes no callback and leaves
\* the cache as it was.
C8_GetMatchingReturnsMatches ==
    [][IsCall("getMatching") =>
          /\ ~last'.threw
          /\ last'.ret = {<<k, Lookup(CacheOf(store, last'.node), k)>> :
                            k \in {t \in KeysOf(CacheOf(store, last'.node)) :
                                      WildcardMatch(last'.topic, t)}}
          /\ last'.deliv = <<>>
          /\ store' = store]_vars

\* C9: subscribe invokes no callback, raises nothing and leaves the cache
\* unchanged; every invocation of a callback is made by a setValue, for a
\* subscription registered before that setValue started.
C9_SubscribeIsNotRetroactive ==
    [][/\ IsCall("subscribe") => last'.deliv = <<>> /\ ~last'.threw /\ store' = store
       /\ ops' = ops + 1 =>
             \A i \in 1..Len(last'.deliv) :
                 /\ last'.op = "setValue"
                 /\ last'.deliv[i].id \in RegistryIds(subs[last'.deliv[i].node])]_vars

\* C9's case: a subscription was made to a topic that is in the cache.
C9_Witness ==
    /\ last.op = "subscribe"
    /\ GetValue(last.node, last.topic) # Absent
    /\ last.ret = counter[last.node]

\* A registry without the subscription id: every other subscription is where
\* it was, in the order it was.
Without(reg, id) ==
    LET kept == {p \in DOMAIN reg : BucketIds(reg[p]) # {id}} IN
    [p \in kept |-> SelectSeq(reg[p], LAMBDA x : x.id # id)]

\* C10: unsubscribe(id) removes the subscription with that id and nothing
\* else, changes nothing when no subscription has that id, never raises and
\* leaves the cache unchanged; no callback of a removed subscription is
\* invoked again.
C10_UnsubscribeRemovesExactlyOne ==
    [][/\ IsCall("unsubscribe") =>
             /\ subs' = [subs EXCEPT ![last'.node] = Without(@, last'.id)]
             /\ last'.id \notin RegistryIds(subs[last'.node]) => subs' = subs
             /\ store' = store /\ counter' = counter
             /\ ~last'.threw /\ last'.deliv = <<>>
       /\ ops' = ops + 1 =>
             \A i \in 1..Len(last'.deliv) :
                 <<last'.deliv[i].node, last'.deliv[i].id>> \notin dead']_vars

\* C10's case: one of two subscriptions to the same topic has been
\* unsubscribed, and the other one is still registered.
C10_Witness ==
    /\ last.op = "unsubscribe"
    /\ <<last.node, last.id>> \in dead
    /\ \E p \in DOMAIN subs[last.node] :
          /\ Len(subs[last.node][p]) = 1
          /\ counter[last.node] = 2
          /\ BucketIds(subs[last.node][p]) \cup {last.id} = {1, 2}

\* C11: the registry never holds a bucket without subscribers: the bucket of
\* a pattern is removed by the unsubscribe that removes its last subscriber.
C11_NoEmptyBucket ==
    \A n \in Deployed : \A p \in DOMAIN subs[n] : Len(subs[n][p]) > 0

\* C11's case: the only subscription of a node has been unsubscribed, and its
\* bucket is gone with it.
C11_Witness ==
    /\ last.op = "unsubscribe"
    /\ <<last.node, last.id>> \in dead
    /\ counter[last.node] = 1
    /\ DOMAIN subs[last.node] = {}

\* C12: subscribe never returns an id that an earlier subscribe on the same
\* node returned, whatever was unsubscribed in between.
C12_SubscriptionIdsUnique ==
    [][IsCall("subscribe") => <<last'.node, last'.ret>> \notin issued]_vars

\* C12's case: a subscribe made after an earlier subscription was removed.
C12_Witness ==
    /\ last.op = "subscribe"
    /\ <<last.node, 1>> \in dead
    /\ last.ret = 2
    /\ issued = {<<last.node, 1>>, <<last.node, 2>>}

----------------------------------------------------------------------------
\* Properties of the calculator (C13 - C20).

\* The evaluations of the last call, and what each of them sent and wrote.
Evals == {last.evals[i] : i \in 1..Len(last.evals)}

MessagesOf(e) == SelectSeq(last.sent, LAMBDA s : s.eval = e.id)

WritesOf(e) == SelectSeq(last.writes, LAMBDA x : x.by = e.id)

\* What evaluating e's expression on the values e's calculator knew yields.
ResultOf(e) == Evaluate(e.expression, Context(e.calc, e.latest))

\* The topics of the inputs of calculator c.
InputTopics(c) == {InputMappings(c)[i].topic : i \in 1..Len(InputMappings(c))}

\* The calculator was constructed with a cache, inputs and an expression.
Initialized(c) ==
    /\ calcCfg[c].cache # "none"
    /\ calcCfg[c].inputMappings # <<>>
    /\ calcCfg[c].expression # ""

\* Every message sent and every cache write made by a calculator belongs to
\* one of the evaluations of the call.
SentAndWrittenByEvals ==
    /\ \A i \in 1..Len(last.sent) :
          /\ last.sent[i].eval \in 1..Len(last.evals)
          /\ last.evals[last.sent[i].eval].calc = last.sent[i].calc
    /\ \A i \in 1..Len(last.writes) :
          /\ last.writes[i].by \in 0..Len(last.evals)
          /\ last.writes[i].by = 0 => i = 1 /\ last.op = "setValue"

\* C13: a calculator with policy `all` evaluates, emits and writes only when
\* every one of its input topics has been written since its construction;
\* once they all have, a write to one of them (other than its output topic)
\* is evaluated; with a on x, b on y and a+b, the setValue(y, 2) that follows
\* setValue(x, 1) sends 3 on the success output with topic calc/result and
\* writes 3 to calc/result.
C13_AllPolicyWaitsForEveryInput ==
    /\ SentAndWrittenByEvals
    /\ \A e \in Evals : TriggerOn(e.calc) = "all" => InputTopics(e.calc) \subseteq e.updated
    /\ last.op = "setValue" =>
          \A c \in DOMAIN calcCfg :
              /\ Initialized(c) /\ TriggerOn(c) = "all"
              /\ last.topic \in InputTopics(c) /\ last.topic # OutputTopic(c)
              /\ InputTopics(c) \subseteq setTopics
              => \E e \in Evals : e.calc = c /\ e.trigger = last.topic
    /\ /\ last.op = "setValue" /\ last.topic = TopicY /\ last.value = Num(2)
       /\ calcCfg["c1"] = CalcConfig("n1", <<InputAX, InputBY>>, ExprAPlusB, "all", <<>>)
       /\ calc["c1"].expression = ExprAPlusB
       /\ "a" \in DOMAIN calc["c1"].latestValues
       /\ calc["c1"].latestValues["a"].value = Num(1)
       => /\ Len(last.sent) = 1
          /\ last.sent[1].port = 1
          /\ last.sent[1].msg.payload = Num(3)
          /\ last.sent[1].msg.topic = DefaultOutputTopic
          /\ GetValue("n1", DefaultOutputTopic) # Absent
          /\ GetValue("n1", DefaultOutputTopic).value = Num(3)

\* C13's case: the calculator of the example has sent 3 after setValue(x, 1)
\* and setValue(y, 2), its first evaluation.
C13_Witness ==
    /\ ops = 2
    /\ last.op = "setValue" /\ last.topic = TopicY /\ last.value = Num(2)
    /\ calcCfg["c1"] = CalcConfig("n1", <<InputAX, InputBY>>, ExprAPlusB, "all", <<>>)
    /\ calc["c1"].latestValues["a"].value = Num(1)
    /\ Len(last.evals) = 1
    /\ last.sent[1].msg.payload = Num(3)

\* The evaluations calculator c made during the last call, and the cache
\* writes they made.
EvalsBy(c) == {e \in Evals : e.calc = c}

WritesBy(c) ==
    {i \in 1..Len(last.writes) :
        last.writes[i].by # 0 /\ last.evals[last.writes[i].by].calc = c}

\* The output topic of calculator c is also one of its inputs.
FeedsItself(c) == Initialized(c) /\ OutputTopic(c) \in InputTopics(c)

PolicyGateOpen(c, known) == TriggerOn(c) = "any" \/ InputTopics(c) \subseteq known

C15_NestedWritesTerminate == ~last.exhausted

\* The inputs of e's calculator that had no value, or null, when e started.
Missing(e) ==
    {InputMappings(e.calc)[i].name : i \in 1..Len(InputMappings(e.calc))} \
    {name \in DOMAIN e.latest : e.latest[name].value \notin {Null, UndefinedValue}}

Elements(seq) == {seq[i] : i \in 1..Len(seq)}

\* C16: an evaluation that yields NaN writes nothing to the cache, sends
\* nothing on the success output and sends one message on the failure output,
\* which carries the missing inputs and the expression; for 0/0 with every
\* input present the list of missing inputs is empty.
C16_NaNIsReportedNotWritten ==
    \A e \in Evals :
        ~ResultOf(e).raised /\ ResultOf(e).value = NaN =>
            /\ WritesOf(e) = <<>>
            /\ Len(MessagesOf(e)) = 1
            /\ MessagesOf(e)[1].calc = e.calc
            /\ MessagesOf(e)[1].port = 2
            /\ Elements(MessagesOf(e)[1].msg.payload.missingInputs) = Missing(e)
            /\ Len(MessagesOf(e)[1].msg.payload.missingInputs) = Cardinality(Missing(e))
            /\ MessagesOf(e)[1].msg.payload.expression = e.expression
            /\ e.expression = ExprZeroDivZero /\ Missing(e) = {} =>
                  MessagesOf(e)[1].msg.payload.missingInputs = <<>>

\* C16's case: 0/0 has been evaluated with both inputs present.
C16_Witness ==
    /\ Len(last.evals) = 1
    /\ last.evals[1].expression = ExprZeroDivZero
    /\ DOMAIN last.evals[1].latest = {"a", "b"}
    /\ Missing(last.evals[1]) = {}
    /\ Len(last.sent) = 1
    /\ last.sent[1].port = 2
    /\ last.sent[1].msg.payload.missingInputs = <<>>
    /\ Len(last.writes) = 1

\* C17: an evaluation that raises writes nothing to the cache, sends nothing
\* on the success output and sends one message on the failure output, which
\* carries the error message, the expression and the evaluation context.
C17_ErrorIsReportedNotWritten ==
    \A e \in Evals :
        ResultOf(e).raised =>
            /\ WritesOf(e) = <<>>
            /\ Len(MessagesOf(e)) = 1
            /\ MessagesOf(e)[1].calc = e.calc
            /\ MessagesOf(e)[1].port = 2
            /\ MessagesOf(e)[1].msg.payload =
                  [error |-> ResultOf(e).message,
                   expression |-> e.expression,
                   context |-> [name \in Elements(InputNames(e.calc)) |->
                                  IF name \in Missing(e) THEN UndefinedValue
                                  ELSE e.latest[name].value]]

\* C17's case: an expression that does not parse has been evaluated for a
\* write to an input, the other input having no value.
C17_Witness ==
    /\ last.op = "setValue"
    /\ Len(last.evals) = 1
    /\ last.evals[1].expression = ExprSyntaxError
    /\ Missing(last.evals[1]) = {"b"}
    /\ Len(last.sent) = 1
    /\ last.sent[1].port = 2
    /\ Len(last.writes) = 1

\* The topic that triggered evaluation e: the topic of the external
\* setValue, the output topic of the evaluation whose write started e, or
\* the trigger name of a forced recalculation.
TriggerOf(e) ==
    IF e.parent # 0 THEN OutputTopic(last.evals[e.parent].calc)
    ELSE IF last.op = "setValue" THEN last.topic
    ELSE RecalcTrigger

\* C18: an evaluation that yields a result other than NaN sends one message,
\* on the success output, which carries the result, the output topic and the
\* triggering topic, and writes the result once, under the output topic,
\* during the call; when that write returns, the cache holds the written
\* entry for the output topic unless the entry has been evicted.
C18_ResultIsSentAndWritten ==
    \A e \in Evals :
        ~ResultOf(e).raised /\ ResultOf(e).value # NaN =>
            /\ Len(MessagesOf(e)) = 1
            /\ MessagesOf(e)[1].calc = e.calc
            /\ MessagesOf(e)[1].port = 1
            /\ MessagesOf(e)[1].msg.payload = ResultOf(e).value
            /\ MessagesOf(e)[1].msg.topic = OutputTopic(e.calc)
            /\ MessagesOf(e)[1].msg.trigger = TriggerOf(e)
            /\ Len(WritesOf(e)) = 1
            /\ WritesOf(e)[1].node = CalcCache(e.calc)
            /\ WritesOf(e)[1].topic = OutputTopic(e.calc)
            /\ WritesOf(e)[1].entry.value = ResultOf(e).value
            /\ \/ e.got = WritesOf(e)[1].entry
               \/ e.got = Absent /\ OutputTopic(e.calc) \in Elements(last.evicted)

\* C18's case: a/0 has been evaluated with a = 1, and the cache holds
\* Infinity for the output topic.
C18_Witness ==
    /\ last.op = "setValue"
    /\ Len(last.evals) = 1
    /\ last.evals[1].expression = ExprADivZero
    /\ last.evals[1].latest["a"].value = Num(1)
    /\ last.sent[1].msg.payload = Infinity
    /\ GetValue("n1", DefaultOutputTopic) # Absent
    /\ GetValue("n1", DefaultOutputTopic).value = Infinity

\* e ended in a NaN failure or in an evaluation error.
Failed(e) == ResultOf(e).raised \/ ResultOf(e).value = NaN

\* C19: a call in which an evaluation of a calculator fails raises nothing
\* and leaves the registry, the calculator's subscription ids and its
\* expression (unless the message carries a new one) as they were; of its
\* latest values, only those of the topics written during the call change;
\* and when the call before failed, a write to an input topic other than the output topic, or
\* a recalc request, is evaluated whenever the calculator's gates let it
\* through.
C19_ReadyAfterFailure ==
    [][ops' = ops + 1 =>
        \A c \in DOMAIN calcCfg :
            /\ (\E i \in 1..Len(last'.evals) :
                    last'.evals[i].calc = c /\ Failed(last'.evals[i]))
               => /\ ~last'.threw
                  /\ subs' = subs
                  /\ calc'[c].subscriptionIds = calc[c].subscriptionIds
                  /\ calc'[c].expression =
                        IF last'.op = "input" /\ last'.msg.expression # Undefined
                        THEN last'.msg.expression ELSE calc[c].expression
                  /\ \A name \in DOMAIN calc[c].latestValues :
                        /\ name \in DOMAIN calc'[c].latestValues
                        /\ calc[c].latestValues[name].topic \notin
                              {last'.writes[i].topic : i \in 1..Len(last'.writes)} =>
                              calc'[c].latestValues[name] = calc[c].latestValues[name]
            /\ (\E i \in 1..Len(last.evals) :
                    last.evals[i].calc = c /\ Failed(last.evals[i]))
               /\ \/ /\ last'.op = "setValue"
                     /\ last'.topic \in InputTopics(c) \ {OutputTopic(c)}
                     /\ PolicyGateOpen(c, setTopics')
                  \/ /\ last'.op = "input" /\ last'.calc = c
                     /\ last'.msg.payload = "recalc" \/ last'.msg.topic = "recalc"
                     /\ PolicyGateOpen(c, setTopics)
               => \E i \in 1..Len(last'.evals) : last'.evals[i].calc = c]_vars

\* C19's case: an evaluation has failed, and the calculator has evaluated
\* the next update of another input, which failed too.
C19_Witness ==
    /\ ops = 2
    /\ last.op = "setValue"
    /\ Len(last.evals) = 1
    /\ Failed(last.evals[1])
    /\ TriggerOn("c1") = "any"
    /\ calc["c1"].expression = calcCfg["c1"].expression
    /\ DOMAIN calc["c1"].latestValues = {"a", "b"}
    /\ Len(calc["c1"].subscriptionIds) = 2

\* The calculator was constructed without a cache, without inputs or without
\* an expression.
Uninitialized(c) ==
    \/ calcCfg[c].cache = "none"
    \/ calcCfg[c].inputMappings = <<>>
    \/ calcCfg[c].expression = ""

\* C20: a calculator constructed without a cache, without inputs or without
\* an expression holds no subscription, keeps the expression and the (empty)
\* latest values it was constructed with, and never evaluates, sends a
\* message or writes to the cache.
C20_UninitializedStaysSilent ==
    \A c \in DOMAIN calcCfg :
        Uninitialized(c) =>
            /\ calc[c].subscriptionIds = <<>>
            /\ \A n \in Deployed : \A p \in DOMAIN subs[n] : \A i \in 1..Len(subs[n][p]) :
                  subs[n][p][i].cb \in Closures => ClosureCalc(subs[n][p][i].cb) # c
            /\ calc[c].expression = calcCfg[c].expression
            /\ DOMAIN calc[c].latestValues = {}
            /\ EvalsBy(c) = {}
            /\ \A i \in 1..Len(last.sent) : last.sent[i].calc # c
            /\ \A i \in 1..Len(last.writes) : last.writes[i].by = 0

\* C20's case: a calculator constructed with an empty expression has been
\* sent a new expression and then, its input topics being written, a recalc
\* request.
C20_Witness ==
    /\ calcCfg["c1"].expression = ""
    /\ calcCfg["c1"].cache = "n1"
    /\ calcCfg["c1"].inputMappings # <<>>
    /\ last.op = "input" /\ last.calc = "c1" /\ last.msg.payload = "recalc"
    /\ InputTopics("c1") \cap setTopics # {}
    /\ ops = 3

\* The calculator's constructor ran to the end, and the gates of tryCalculate
\* let a forced recalculation through.
RecalcGatesOpen(c) ==
    /\ CalcReady(c)
    /\ DOMAIN calc[c].latestValues # {}
    /\ TriggerOn(c) = "all" => AllInputsKnown(c, calc[c].latestValues)

\* C21: a message at the input of a calculator that has External Trigger
\* ticked starts a recalculation, whatever its payload and topic (an
\* evaluation, when the gates let it through); a message that carries no
\* new expression starts none at a calculator that has it unticked.
C21_ExternalTriggerRecalculates ==
    last.op = "input" =>
        /\ calcCfg[last.calc].externalTrigger /\ RecalcGatesOpen(last.calc)
           => \E e \in Evals : e.calc = last.calc /\ e.trigger = RecalcTrigger
        /\ ~calcCfg[last.calc].externalTrigger /\ last.msg.expression = Undefined
           => Evals = {}

\* C22: the trigger name of a forced recalculation is no calculator's output
\* topic: a recalc request at a calculator whose gates are open (an input
\* value is known) is evaluated, with that trigger, whatever the output topic
\* the calculator is configured with.
C22_RecalcTriggerIsNoTopic ==
    /\ last.op = "input"
    /\ last.msg.payload = "recalc" \/ last.msg.topic = "recalc"
    /\ RecalcGatesOpen(last.calc)
    => \E e \in Evals : e.calc = last.calc /\ e.trigger = RecalcTrigger

\* The value the cache of calculator c holds for a topic, undefined when it
\* holds none (or null).
CachedValue(st, c, topic) ==
    LET entry == Lookup(CacheOf(st, CalcCache(c)), topic) IN
    IF entry = Absent \/ entry.value = Null THEN UndefinedValue ELSE entry.value

\* C23: a forced recalculation binds every input name to the value the cache
\* holds for the input's topic when the request arrives, and to undefined
\* (a missing input) when the cache holds no entry for it.
C23_RecalcReadsCache ==
    [][ops' = ops + 1 /\ last'.op = "input" =>
        \A i \in 1..Len(last'.evals) :
            LET e == last'.evals[i] IN
            e.trigger = RecalcTrigger =>
                \A k \in 1..Len(InputMappings(e.calc)) :
                    Context(e.calc, e.latest)[InputMappings(e.calc)[k].name] =
                        CachedValue(store, e.calc, InputMappings(e.calc)[k].topic)]_vars

\* The message carries a new expression text and no recalc request.
Reconfigures(msg) ==
    /\ msg.expression \notin {Undefined, ExprEmpty}
    /\ msg.payload # "recalc"
    /\ msg.topic # "recalc"

\* C24: a message that replaces the expression and asks for no recalculation
\* sends nothing, evaluates nothing and writes nothing, and leaves the cache
\* and the calculator's latest values as they were; the calculator's
\* expression is the new text from then on, and was the old one until then;
\* every evaluation uses the expression the calculator has at that moment.
C24_ExpressionTakesEffectOnNextRecalc ==
    [][ops' = ops + 1 =>
        /\ last'.op = "input" /\ Reconfigures(last'.msg) =>
              /\ last'.sent = <<>> /\ last'.evals = <<>> /\ last'.writes = <<>>
              /\ store' = store
              /\ \A c \in DOMAIN calcCfg : calc'[c].latestValues = calc[c].latestValues
        /\ \A c \in DOMAIN calcCfg :
              calc'[c].expression =
                  IF /\ last'.op = "input" /\ last'.calc = c /\ CalcReady(c)
                     /\ last'.msg.expression \notin {Undefined, ExprEmpty}
                  THEN last'.msg.expression
                  ELSE calc[c].expression
        /\ \A i \in 1..Len(last'.evals) :
              last'.evals[i].expression = calc'[last'.evals[i].calc].expression]_vars

\* C24's case: a+b has been replaced by 0/0, and the recalculation asked for
\* next has evaluated 0/0.
C24_Witness ==
    /\ last.op = "input" /\ last.msg.payload = "recalc"
    /\ calcCfg[last.calc].expression = ExprAPlusB
    /\ calc[last.calc].expression = ExprZeroDivZero
    /\ Len(last.evals) = 1
    /\ last.evals[1].expression = ExprZeroDivZero
    /\ last.evals[1].trigger = RecalcTrigger
    /\ Len(last.sent) = 1 /\ last.sent[1].port = 2

\* The subscription is one that calculator c made.
MadeBy(sub, c) == sub.cb \in Closures /\ ClosureCalc(sub.cb) = c

\* A registry without the subscriptions of calculator c: every other
\* subscription is where it was, in the order it was, and no bucket is empty.
WithoutCalc(reg, c) ==
    LET Rest(p) == SelectSeq(reg[p], LAMBDA sub : ~MadeBy(sub, c)) IN
    [p \in {q \in DOMAIN reg : Rest(q) # <<>>} |-> Rest(p)]

\* C25: closing a calculator removes the subscriptions it made and nothing
\* else, invokes no callback and leaves the cache as it was; once a
\* calculator is closed the registry holds no subscription of it and no
\* empty bucket, and no call makes it evaluate, send a message, write to the
\* cache or take an input value.
C25_CloseRemovesOwnSubscriptions ==
    [][ops' = ops + 1 =>
        /\ last'.op = "close" =>
              /\ \A n \in Deployed :
                    subs'[n] = IF n = CalcCache(last'.calc) /\ CalcReady(last'.calc)
                               THEN WithoutCalc(subs[n], last'.calc)
                               ELSE subs[n]
              /\ store' = store
              /\ ~last'.threw /\ last'.deliv = <<>> /\ last'.sent = <<>>
        /\ \A c \in DOMAIN calcCfg :
              calc'[c].closed =>
                  /\ \A n \in Deployed : \A p \in DOMAIN subs'[n] :
                        /\ subs'[n][p] # <<>>
                        /\ \A i \in 1..Len(subs'[n][p]) : ~MadeBy(subs'[n][p][i], c)
                  /\ calc'[c].subscriptionIds = <<>>
                  /\ calc'[c].latestValues = calc[c].latestValues
                  /\ \A i \in 1..Len(last'.evals) : last'.evals[i].calc # c
                  /\ \A i \in 1..Len(last'.sent) : last'.sent[i].calc # c
                  /\ \A i \in 1..Len(last'.writes) :
                        last'.writes[i].by # 0 =>
                            last'.evals[last'.writes[i].by].calc # c]_vars

\* C25's case: c1 and c2 were subscribed to x, c1 has been closed after it
\* had taken a value, and a later write to x has been handed to c2 alone.
C25_Witness ==
    /\ "c2" \in DOMAIN calcCfg
    /\ InputTopics("c1") = {TopicX} /\ InputTopics("c2") = {TopicX}
    /\ calc["c1"].closed /\ ~calc["c2"].closed
    /\ DOMAIN calc["c1"].latestValues # {}
    /\ last.op = "setValue" /\ last.topic = TopicX
    /\ Len(last.deliv) = 1
    /\ Len(last.evals) = 1 /\ last.evals[1].calc = "c2"
    /\ Len(subs["n1"][TopicX]) = 1

----------------------------------------------------------------------------
\* Properties of expiry (C26 - C28).

\* The step is a sweep of node n.
IsSweep(n) == timer'[n] # timer[n]

\* C26: a sweep of a node with TTL > 0 removes the entries that are older
\* than TTL and keeps every other entry as it is: an entry written at t0 is
\* kept by every sweep that runs at t0 + TTL or before and is absent from
\* getValue after a sweep that runs later; time passing removes nothing by
\* itself; a sweep runs no earlier than it is due, and is due again
\* min(TTL, 60000) ms after it has run.
C26_SweepRemovesExpiredEntries ==
    [][/\ \A n \in Deployed :
             IsSweep(n) =>
                 LET cache == CacheOf(store, n)
                     after == CacheOf(store', n)
                 IN /\ NodeTtl(n) > 0
                    /\ KeysOf(after) \subseteq KeysOf(cache)
                    /\ \A i \in 1..Len(cache) :
                          /\ now <= cache[i].entry.ts + NodeTtl(n) =>
                                Lookup(after, cache[i].topic) = cache[i].entry
                          /\ now > cache[i].entry.ts + NodeTtl(n) =>
                                Lookup(after, cache[i].topic) = Absent
                    /\ now >= timer[n].due
                    /\ timer'[n].due =
                          now + (IF NodeTtl(n) < MaxSweepInterval THEN NodeTtl(n)
                                 ELSE MaxSweepInterval)
       /\ now' # now => store' = store]_vars

\* C26's case: with TTL 1, the sweep at time 2 has removed the entry written
\* at time 0 and kept the entry written at time 1.
C26_Witness ==
    /\ last.op = "sweep"
    /\ NodeTtl("n1") = 1 /\ NodeMaxEntries("n1") = DefaultMaxEntries
    /\ now = 2
    /\ ops = 2
    /\ Cardinality(setTopics) = 2
    /\ Size("n1") = 1
    /\ CacheOf(store, "n1")[1].entry.ts = 1

\* C27: a node with TTL 0 has no sweep timer and is never swept: an entry
\* leaves its cache only in a clear() or by the capacity eviction of a
\* setValue, however old it is.
C27_NoExpiryWithoutTtl ==
    [][\A n \in Deployed :
          NodeTtl(n) = 0 =>
              /\ ~timer[n].armed
              /\ ~IsSweep(n)
              /\ \A topic \in KeysOf(CacheOf(store, n)) \ KeysOf(CacheOf(store', n)) :
                    /\ ops' = ops + 1
                    /\ \/ last'.op = "clear"
                       \/ last'.op = "setValue" /\ topic \in Elements(last'.evicted)]_vars

\* C27's case: with TTL 0 the cache still holds, two long intervals later,
\* the entry written at time 0.
C27_Witness ==
    /\ NodeTtl("n1") = 0
    /\ now >= 2 * MaxSweepInterval
    /\ Size("n1") = 1
    /\ CacheOf(store, "n1")[1].entry.ts = 0

\* C28: a sweep and a clear() invoke no callback and leave the subscription
\* registry as it was; a setValue invokes the callbacks subscribed to the
\* written topic, once each and with the written entry, and none for the
\* entry its eviction removes, also after sweeps and clears.
C28_RemovalsAreSilent ==
    [][/\ \A n \in Deployed :
             IsSweep(n) => subs' = subs /\ counter' = counter /\ last'.deliv = <<>>
       /\ ops' = ops + 1 /\ last'.op = "clear" => subs' = subs /\ last'.deliv = <<>>
       /\ ops' = ops + 1 /\ last'.op = "setValue" =>
             /\ subs' = subs
             /\ [i \in 1..Len(last'.deliv) |-> last'.deliv[i].id] =
                   [i \in 1..Len(Bucket(last'.node, last'.topic)) |->
                       Bucket(last'.node, last'.topic)[i].id]
             /\ \A i \in 1..Len(last'.deliv) :
                   /\ last'.deliv[i].topic = last'.topic
                   /\ last'.deliv[i].entry = last'.entry]_vars

\* C28's case: a subscriber's topic has been written, the entry has been
\* removed by a sweep, and the subscriber has been invoked for the write of
\* another topic that followed.
C28_Witness ==
    /\ ops = 3
    /\ counter["n1"] = 1
    /\ NodeTtl("n1") > 0 /\ NodeMaxEntries("n1") = DefaultMaxEntries
    /\ last.op = "setValue" /\ last.topic = TopicSensor1
    /\ Cardinality(setTopics) = 2
    /\ Size("n1") = 1
    /\ Len(last.deliv) = 1

----------------------------------------------------------------------------
\* Properties of several caches and of the calculator's outputs (C29, C30).

\* C29: a setValue or a clear() on one event-cache node leaves what
\* getValue, getTopics and size return on every other node as it was, and
\* invokes no callback subscribed on another node, whatever the nodes' names.
C29_InstancesAreIsolated ==
    [][ops' = ops + 1 /\ last'.op \in {"setValue", "clear"} =>
        /\ \A m \in Deployed \ {last'.node} :
              /\ CacheOf(store', m) = CacheOf(store, m)
              /\ subs'[m] = subs[m]
        /\ \A i \in 1..Len(last'.deliv) : last'.deliv[i].node = last'.node]_vars

\* C30: every evaluation sends exactly one message, on the success output
\* or on the failure output.
C30_OneMessagePerEvaluation ==
    \A e \in Evals :
        /\ Len(MessagesOf(e)) = 1
        /\ MessagesOf(e)[1].port \in {1, 2}

----------------------------------------------------------------------------
\* Properties of the trigger policies and of latestValues (C31 - C33).

\* The names of the inputs of e's calculator, in the order of its mappings.
NamesOf(e) == {InputMappings(e.calc)[i].name : i \in 1..Len(InputMappings(e.calc))}

\* What each input of e's calculator is bound to: undefined (the missing
\* marker) for an input without a value or with null, its latest value
\* otherwise.
Bound(e) ==
    [name \in NamesOf(e) |->
        IF name \in Missing(e) THEN UndefinedValue ELSE e.latest[name].value]

\* The missing inputs of e, in the order of the input mappings.
MissingList(e) ==
    SelectSeq([i \in 1..Len(InputMappings(e.calc)) |-> InputMappings(e.calc)[i].name],
              LAMBDA name : name \in Missing(e))

\* C31: a calculator with policy `any` that has not been closed evaluates on
\* every write (external or nested) to one of its input topics other than its output topic, whether
\* or not its other inputs have been observed; the evaluation binds every
\* input that has no value or null to the missing marker and lists it as
\* missing, binds every other input to its latest value, and its messages
\* carry these bindings.
C31_AnyPolicyEvaluatesEveryUpdate ==
    /\ \A i \in 1..Len(last.writes) :
          \A c \in DOMAIN calcCfg :
              /\ Initialized(c) /\ TriggerOn(c) = "any" /\ ~calc[c].closed
              /\ last.writes[i].node = CalcCache(c)
              /\ last.writes[i].topic \in InputTopics(c)
              /\ last.writes[i].topic # OutputTopic(c)
              => \E e \in EvalsBy(c) :
                    /\ e.trigger = last.writes[i].topic
                    /\ e.parent = last.writes[i].by
                    /\ \E name \in DOMAIN e.latest :
                          /\ e.latest[name].topic = last.writes[i].topic
                          /\ e.latest[name].value = last.writes[i].entry.value
    /\ \A e \in Evals :
          TriggerOn(e.calc) = "any" =>
              /\ Len(MessagesOf(e)) >= 1
              /\ \A k \in 1..Len(MessagesOf(e)) :
                    LET m == MessagesOf(e)[k].msg IN
                    /\ DOMAIN m.inputs = NamesOf(e) \ Missing(e)
                    /\ \A name \in DOMAIN m.inputs : m.inputs[name] = e.latest[name]
                    /\ MessagesOf(e)[k].port = 1 =>
                          m.payload = Evaluate(e.expression, Bound(e)).value
                    /\ MessagesOf(e)[k].port = 2 =>
                          /\ "missingInputs" \in DOMAIN m.payload =>
                                m.payload.missingInputs = MissingList(e)
                          /\ "context" \in DOMAIN m.payload =>
                                m.payload.context = Bound(e)

\* C31's case: a calculator with policy `any` and inputs a on x and b on y
\* has evaluated a+b for a write of null to x, y never having been written:
\* both inputs are reported missing.
C31_Witness ==
    /\ ops = 1
    /\ last.op = "setValue" /\ last.topic = TopicX /\ last.value = Null
    /\ calcCfg["c1"] = CalcConfig("n1", <<InputAX, InputBY>>, ExprAPlusB, "", <<>>)
    /\ Len(last.evals) = 1
    /\ DOMAIN last.evals[1].latest = {"a"}
    /\ Len(last.sent) = 1
    /\ last.sent[1].port = 2
    /\ last.sent[1].msg.payload.missingInputs = <<"a", "b">>

\* The writes of the call the evaluation e belongs to that were made on
\* topic, on the cache of e's calculator, before e started.
WritesBefore(e, topic) ==
    SelectSeq(SubSeq(last.writes, 1, e.wrote),
              LAMBDA x : x.node = CalcCache(e.calc) /\ x.topic = topic)

DeliveredTo(c, i, k) ==
    IF i > Len(calc[c].subscriptionIds) THEN <<>>
    ELSE SelectSeq(SubSeq(last'.deliv, 1, k),
                   LAMBDA d : d.node = CalcCache(c) /\ d.id = calc[c].subscriptionIds[i])

\* What the map lv holds under name.
HeldIn(lv, name) == IF name \in DOMAIN lv THEN lv[name] ELSE Absent

\* What calculator c holds for its i-th input after the first k callback
\* invocations of the call just made: the entry of the last one that went to
\* the input's subscription, and what it held before the call if there is
\* none.
HeldAfter(c, i, k) ==
    LET ds == DeliveredTo(c, i, k) IN
    IF ds = <<>> THEN HeldIn(calc[c].latestValues, InputMappings(c)[i].name)
    ELSE [topic |-> ds[Len(ds)].topic, value |-> ds[Len(ds)].entry.value,
          ts |-> ds[Len(ds)].entry.ts]

\* The writes of the call just made on topic, on cache node n.
WritesOn(n, topic) == SelectSeq(last'.writes, LAMBDA x : x.node = n /\ x.topic = topic)

C33_AllPolicyHasNoMissingInput ==
    \A e \in Evals :
        TriggerOn(e.calc) = "all" =>
            /\ Missing(e) = {}
            /\ \A name \in NamesOf(e) : Bound(e)[name] # UndefinedValue
            /\ \A k \in 1..Len(MessagesOf(e)) :
                  LET m == MessagesOf(e)[k].msg IN
                  /\ DOMAIN m.inputs = NamesOf(e)
                  /\ MessagesOf(e)[k].port = 2 /\ "missingInputs" \in DOMAIN m.payload =>
                        m.payload.missingInputs = <<>>

----------------------------------------------------------------------------
\* Properties of the event-topic node (C34).

\* Event-topic node t has been constructed to the end and not been closed.
Running(t) == TopicReady(t) /\ ~topicNode[t].closed

\* The subscriptions with callback cb in registry reg: <<topic, position in
\* the topic's bucket, id>>.
SubscriptionsOf(reg, cb) ==
    UNION { {<<p, i, reg[p][i].id>> : i \in {j \in 1..Len(reg[p]) : reg[p][j].cb = cb}} :
              p \in DOMAIN reg }

\* The registry reg without the subscriptions with callback cb.
WithoutCallback(reg, cb) ==
    LET kept == [p \in DOMAIN reg |-> SelectSeq(reg[p], LAMBDA sub : sub.cb # cb)]
    IN [p \in {q \in DOMAIN reg : kept[q] # <<>>} |-> kept[p]]

\* The messages event-topic node t sent during the last call.
EmittedBy(t) == SelectSeq(last.emitted, LAMBDA m : m.node = t)

\* A message that changes the topic: a non-empty string msg.topic with
\* payload 'subscribe'.
IsTopicChange(msg) ==
    msg.payload = "subscribe" /\ msg.topic.type = "string" /\ msg.topic.text # <<>>

\* In every state, a running event-topic node holds one subscription, on its
\* current topic and under the id it keeps; a node that is closed or was not
\* constructed to the end holds none; a setValue makes a running node send
\* one message if it is on the node's current topic and none otherwise.
TopicNodeHoldsOneSubscription ==
    \A t \in DOMAIN topicCfg :
        /\ Running(t) =>
              /\ \A n \in Deployed \ {TopicCache(t)} : SubscriptionsOf(subs[n], t) = {}
              /\ Cardinality(SubscriptionsOf(subs[TopicCache(t)], t)) = 1
              /\ \A x \in SubscriptionsOf(subs[TopicCache(t)], t) :
                    x[1] = topicNode[t].topic /\ x[3] = topicNode[t].subscriptionId
        /\ ~Running(t) => \A n \in Deployed : SubscriptionsOf(subs[n], t) = {}
        /\ last.op = "setValue" =>
              IF Running(t) /\ last.node = TopicCache(t) /\ last.topic = topicNode[t].topic
              THEN /\ Len(EmittedBy(t)) = 1
                   /\ EmittedBy(t)[1].msg.topic = last.topic
                   /\ EmittedBy(t)[1].cause = "update"
                   /\ OutputFormat(t) # "full" =>
                         EmittedBy(t)[1].msg.payload = last.value
                   /\ OutputFormat(t) = "full" =>
                         EmittedBy(t)[1].msg.payload.value = last.value
              ELSE EmittedBy(t) = <<>>

\* A topic-change message moves the node to the topic of the message and
\* replaces its subscription by a new one; any other message, and a message
\* to a node that was not constructed to the end, leaves the node and the
\* registry as they are; the subscriptions of others are never touched.
TopicChangeReplacesSubscription ==
    \A t \in DOMAIN topicCfg :
        /\ ops' = ops + 1 /\ last'.op = "topicInput" /\ last'.target = t =>
              /\ IF TopicReady(t) /\ IsTopicChange(last'.msg)
                 THEN /\ topicNode'[t].topic = last'.msg.topic.text
                      /\ topicNode'[t].subscriptionId # topicNode[t].subscriptionId
                      /\ \A x \in SubscriptionsOf(subs'[TopicCache(t)], t) :
                            x[3] # topicNode[t].subscriptionId
                 ELSE topicNode' = topicNode /\ subs' = subs
              /\ \A n \in Deployed : WithoutCallback(subs'[n], t) = WithoutCallback(subs[n], t)
        /\ ops' = ops + 1 /\ last'.op = "topicClose" /\ last'.target = t =>
              /\ topicNode'[t].closed
              /\ \A n \in Deployed : subs'[n] = WithoutCallback(subs[n], t)

----------------------------------------------------------------------------
\* Properties of the event-in node (C35).

\* The topic and the value the node takes from msg.
InTopicOf(i, msg) == GetMessageProperty(msg, StripMsgPrefix(TopicField(i)))

InValueOf(i, msg) == GetMessageProperty(msg, StripMsgPrefix(ValueField(i)))

\* C35: a message whose topic is missing, empty or not a string leaves the
\* cache and the registry as they are, reaches no subscriber, is not passed
\* on and is reported as one error; a message with a valid topic makes the
\* node call setValue(topic, value) once, every subscriber of the topic is
\* called, and the message is passed on, unchanged and once, after all of
\* that; a node without a cache does nothing.
C35_EventInWritesThenForwards ==
    [][ops' = ops + 1 /\ last'.op = "eventIn" =>
          LET i == last'.target
              msg == last'.msg
              topic == InTopicOf(i, msg)
          IN IF ~InReady(i)
             THEN /\ store' = store /\ subs' = subs
                  /\ last'.forwarded = <<>> /\ last'.errors = <<>>
             ELSE IF topic.type # "string" \/ topic.text = <<>>
             THEN /\ store' = store /\ subs' = subs
                  /\ last'.writes = <<>> /\ last'.deliv = <<>>
                  /\ last'.forwarded = <<>>
                  /\ Len(last'.errors) = 1
             ELSE /\ Len(last'.writes) = 1
                  /\ last'.writes[1].node = InCache(i)
                  /\ last'.writes[1].topic = topic.text
                  /\ last'.writes[1].entry.value = InValueOf(i, msg)
                  /\ Len(last'.deliv) = Len(Bucket(InCache(i), topic.text))
                  /\ \A k \in 1..Len(last'.deliv) :
                        /\ last'.deliv[k].topic = topic.text
                        /\ last'.deliv[k].entry = last'.writes[1].entry
                  /\ Len(last'.forwarded) = 1
                  /\ last'.forwarded[1].msg = msg
                  /\ last'.forwarded[1].wrote = 1
                  /\ last'.forwarded[1].delivered = Len(last'.deliv)
                  /\ last'.errors = <<>>
                  /\ subs' = subs]_vars

\* C35's case: a message with topic x has been written to the cache, handed
\* to two subscribers of x, one of which raised, and then passed on.
C35_Witness ==
    /\ ops = 3
    /\ last.op = "eventIn"
    /\ Len(last.writes) = 1 /\ last.writes[1].topic = TopicX
    /\ Len(last.deliv) = 2
    /\ last.logged = 1
    /\ Len(last.forwarded) = 1
    /\ last.forwarded[1].delivered = 2
    /\ GetValue("n1", TopicX) # Absent

----------------------------------------------------------------------------
\* Properties of closing a cache node (C36).

\* The number of times the call just made invoked subscription id of node n.
InvokedNow(n, id) ==
    Cardinality({k \in 1..Len(last'.deliv) :
                    last'.deliv[k].node = n /\ last'.deliv[k].id = id})

\* C36: closing a cache node leaves every cached entry in place and lowers
\* the user count of its instance by one; it empties the subscription
\* registry and removes the update listeners if the count has dropped to
\* zero and leaves both as they are otherwise; it stops the sweep timer, so
\* that no sweep runs on a closed node; a setValue on a node whose count is above zero calls every subscription of
\* the topic once, and on a node without users it stores the entry and calls
\* nobody.
C36_CloseKeepsEntries ==
    [][/\ ops' = ops + 1 /\ last'.op = "cacheClose" =>
             LET n == last'.node IN
             /\ store' = store
             /\ users'[n] = users[n] - 1
             /\ ~timer'[n].armed
             /\ IF users'[n] <= 0
                THEN subs'[n] = <<>> /\ listeners'[n] = 0
                ELSE subs'[n] = subs[n] /\ listeners'[n] = listeners[n]
       /\ ops' = ops + 1 /\ last'.op = "setValue" =>
             LET n == last'.node IN
             /\ last'.topic \in KeysOf(CacheOf(store', n)) \/ last'.evicted # <<>>
             /\ IF users[n] > 0
                THEN /\ subs'[n] = subs[n]
                     /\ \A k \in 1..Len(Bucket(n, last'.topic)) :
                           InvokedNow(n, Bucket(n, last'.topic)[k].id) = 1
                ELSE last'.deliv = <<>>
       /\ last'.op = "sweep" /\ timer' # timer => users[last'.node] > 0]_vars

\* C36's case: the node has been closed after a write and a subscription;
\* its user count is zero, the entry is still cached and the registry is
\* empty.
C36_Witness ==
    /\ ops = 3
    /\ last.op = "cacheClose"
    /\ users["n1"] = 0
    /\ listeners["n1"] = 0
    /\ Size("n1") = 1
    /\ subs["n1"] = <<>>
    /\ counter["n1"] = 1

====
